---- MODULE Spec2Model ----
(***************************************************************************)
(* A model of the id3v2 tag codec (package id3v2): the 4-byte size codec,  *)
(* the frame variants with their Size/WriteTo/UniqueIdentifier methods,    *)
(* the tag aggregate (singular map + sequences), Tag.WriteTo, Tag.Save and *)
(* the parse entry point with its frame scan.                              *)
(*                                                                         *)
(* Bytes are naturals 0..255, byte strings and Go strings are sequences of *)
(* bytes, and a Go uint / int64 is a vector of UintBits bits (bit 1 is the *)
(* least significant one), so that shifts, masks and the 2^32-1 limit are  *)
(* computed as the code computes them.                                     *)
(***************************************************************************)
EXTENDS Integers, Sequences, FiniteSets, TLC

VARIABLES
    \* ---- size codec (size.go) ----
    szPc,         \* "start" | "written" | "parsed" | "decoded"
    szSize,       \* the uint handed to writeBytesSize
    szSynchSafe,  \* the mode flag of the last call
    szOut,        \* bytes the bufferedWriter received from writeBytesSize
    szWErr,       \* error returned by writeBytesSize
    szParsed,     \* int64 returned by parseSize
    szPErr        \* error returned by parseSize

sizeVars == <<szPc, szSize, szSynchSafe, szOut, szWErr, szParsed, szPErr>>

VARIABLES
    \* ---- one frame: Size() and WriteTo() ----
    frPc,         \* "start" | "sized" | "written"
    frFrame,      \* the frame under test
    frSize,       \* what Size() did: [panic, n]
    frOut,        \* bytes WriteTo handed to the writer
    frN,          \* the count WriteTo returned
    frErr,        \* the error WriteTo returned
    frPanic       \* WriteTo panicked instead of returning

frameVars == <<frPc, frFrame, frSize, frOut, frN, frErr, frPanic>>

VARIABLES
    \* ---- one sequence ----
    sqFrames,     \* s.frames
    sqLast,       \* the last call: [op, f, rnd, before]
    \* ---- one tag: its frames and what WriteTo produced ----
    tgTag,        \* [frames, sequences, version, defaultEncoding]
    tgW,          \* the last WriteTo since the tag changed: [done, order, panic, out, n, err]
    tgLast        \* the last call on the tag: DeleteFrames with its id, or another

seqVars == <<sqFrames, sqLast>>

tagVars == <<tgTag, tgW, tgLast>>

VARIABLES
    \* ---- one tag opened from a file, and the two paths Save works on ----
    svPc,           \* position inside Tag.Save, "idle" between calls
    svFile,         \* the bytes of the file at file.Name()
    svFileTag,      \* what a parse of that file finds: [tag, size]
    svTemp,         \* the path file.Name() + "-id3v2": [exists, data]
    svTag,          \* the tag's frames
    svOriginalSize, \* tag.originalSize
    svReader,       \* tag.reader: "none", "reader" (no file), "open", "closed" or "nil" (a nil *os.File)
    svCall,         \* the Save call in progress or just returned
    svFaults        \* how often Save was killed or could not remove its file

saveVars == <<svPc, svFile, svFileTag, svTemp, svTag, svOriginalSize, svReader, svCall, svFaults>>

VARIABLES
    \* ---- one tag parsed from a byte source ----
    psPc,           \* "idle", "frames" inside the loop of parseFrames, "skip"
                    \* inside the loop of skipReaderBuf, or "readall" inside the
                    \* loop of bytes.Buffer.ReadFrom that ReadAll runs
    psSrc,          \* the bytes the reader rd delivers
    psEnd,          \* what rd answers a Read once they are used up: "EOF", or
                    \* "stall" for 0 bytes and no error
    psPos,          \* how many of them were read
    psTag,          \* the tag's frames, version and default encoding
    psOriginalSize, \* tag.originalSize
    psReader,       \* tag.reader: "nil", "rd" (the reader parse was given last) or "earlier"
    psFramesSize,   \* framesSize of parseFrames
    psBuf,          \* the first frameHeaderSize bytes of the pooled slice buf
    psLimit,        \* N of the limited reader over the body that is skipped or read
    psIds,          \* parseableIDs
    psProvided,     \* isParseFramesProvided
    psErr,          \* what parse returned, "pending" while it runs
    psCall,         \* the call: [src, version, originalSize, reader] as parse found them
    psAdded,        \* the frames this parse added, as [id, bodySize]
    psLast          \* the frame header examined last: [seen, bodySize, remaining, added]

parseVars == <<psPc, psSrc, psEnd, psPos, psTag, psOriginalSize, psReader, psFramesSize, psBuf,
               psLimit,
               psIds, psProvided, psErr, psCall, psAdded, psLast>>


VARIABLES
    \* ---- one tag and the last AddFrame or DeleteFrames call on it ----
    stTag,        \* [frames, sequences, version, defaultEncoding]
    stLast        \* the last call: [op, id, f, had, same]

storeVars == <<stTag, stLast>>

VARIABLES
    \* ---- one synchronised lyrics frame written and parsed back ----
    slPc,         \* "start" | "written" | "parsed"
    slFrame,      \* the frame written
    slOut,        \* the bytes WriteTo handed to the writer
    slErr,        \* the error WriteTo returned
    slParsed      \* what parseSynchronisedLyricsFrame did: [panic, err, frame]

syltVars == <<slPc, slFrame, slOut, slErr, slParsed>>

VARIABLES
    \* ---- one frame body handed to its body parser ----
    bdPc,         \* "start" | "parsed"
    bdParser,     \* the parser called, by the frame id it is registered for
    bdInput,      \* what it was given: [data, version, buf, subs, cap]
    bdParsed      \* what it did: [panic, err, frame] and more for a chapter

bodyVars == <<bdPc, bdParser, bdInput, bdParsed>>

VARIABLES
    \* ---- chapter bodies parsed by goroutines that share lrPool ----
    plG,          \* per goroutine: where it is in parseChapterFrame, and its locals
    plPos,        \* per goroutine: how much of its chapter body its reader handed out
    plLr,         \* per limited reader made so far: its fields R and N
    plFree,       \* the limited readers lying in lrPool
    plBr          \* per bufferedReader: the limited reader it reads, and what it has buffered

poolVars == <<plG, plPos, plLr, plFree, plBr>>
VARIABLES
    \* ---- a tag header written by writeTagHeader, or given, then parsed ----
    hdPc,         \* "start", "written" or "parsed"
    hdArgs,       \* the arguments of writeTagHeader, if it wrote the bytes
    hdBytes,      \* the bytes parseHeader reads
    hdHeader      \* what parseHeader returned

headerVars == <<hdPc, hdArgs, hdBytes, hdHeader>>

VARIABLES
    \* ---- the bytes of a tag's source that the frame scan takes, frame by frame ----
    skPc,         \* "idle", "frames" inside the loop of parseFrames, "skip" inside
                  \* the loop of skipReaderBuf, or "done"
    skSrc,        \* the bytes tag.reader delivers
    skPos,        \* how many of them were taken from it
    skFramesSize, \* framesSize of parseFrames
    skIds,        \* parseableIDs
    skProvided,   \* isParseFramesProvided
    skLimit,      \* N of the limited reader over the body that is skipped
    skBuf,        \* the first frameHeaderSize bytes of the slice buf
    skLog,        \* the frame headers read so far: [at, err, id, bodySize, next]
    skErr         \* what parseFrames returned

streamVars == <<skPc, skSrc, skPos, skFramesSize, skIds, skProvided, skLimit, skBuf, skLog,
               skErr>>

vars == <<sizeVars, frameVars, seqVars, tagVars, saveVars, parseVars, storeVars, syltVars, bodyVars, poolVars, headerVars, streamVars>>

notSize == <<frameVars, seqVars, tagVars, saveVars, parseVars, storeVars, syltVars, bodyVars, poolVars, headerVars, streamVars>>

notFrame == <<sizeVars, seqVars, tagVars, saveVars, parseVars, storeVars, syltVars, bodyVars, poolVars, headerVars, streamVars>>

notSeq == <<sizeVars, frameVars, tagVars, saveVars, parseVars, storeVars, syltVars, bodyVars, poolVars, headerVars, streamVars>>

notTag == <<sizeVars, frameVars, seqVars, saveVars, parseVars, storeVars, syltVars, bodyVars, poolVars, headerVars, streamVars>>

notSave == <<sizeVars, frameVars, seqVars, tagVars, parseVars, storeVars, syltVars, bodyVars, poolVars, headerVars, streamVars>>

notParse == <<sizeVars, frameVars, seqVars, tagVars, saveVars, storeVars, syltVars, bodyVars, poolVars, headerVars, streamVars>>

notStore == <<sizeVars, frameVars, seqVars, tagVars, saveVars, parseVars, syltVars, bodyVars, poolVars, headerVars, streamVars>>

notSylt == <<sizeVars, frameVars, seqVars, tagVars, saveVars, parseVars, storeVars, bodyVars, poolVars, headerVars, streamVars>>

notBody == <<sizeVars, frameVars, seqVars, tagVars, saveVars, parseVars, storeVars, syltVars, poolVars, headerVars, streamVars>>

notPool == <<sizeVars, frameVars, seqVars, tagVars, saveVars, parseVars, storeVars, syltVars, bodyVars, headerVars, streamVars>>

notHeader == <<sizeVars, frameVars, seqVars, tagVars, saveVars, parseVars, storeVars, syltVars, bodyVars, poolVars, streamVars>>

notStream == <<sizeVars, frameVars, seqVars, tagVars, saveVars, parseVars, storeVars, syltVars, bodyVars, poolVars, headerVars>>

(***************************************************************************)
(* Machine integers                                                        *)
(***************************************************************************)
\* width of Go's uint and int64 on the 64-bit builds the package targets
UintBits == 64

Pow2(n) == 2 ^ n

Zero64 == [i \in 1..UintBits |-> 0]

\* the bit vector of a natural n < 2^31
FromNat(n) == [i \in 1..UintBits |-> IF i <= 31 THEN (n \div Pow2(i - 1)) % 2 ELSE 0]

\* x << k, truncated to the machine width
Shl(x, k) == [i \in 1..UintBits |-> IF i > k THEN x[i - k] ELSE 0]

\* x >> k (logical)
Shr(x, k) == [i \in 1..UintBits |-> IF i + k <= UintBits THEN x[i + k] ELSE 0]

BitAnd(x, y) == [i \in 1..UintBits |-> x[i] * y[i]]

BitOr(x, y) == [i \in 1..UintBits |-> IF x[i] + y[i] > 0 THEN 1 ELSE 0]

\* x > y, unsigned
Gt(x, y) == \E i \in 1..UintBits :
               /\ x[i] = 1 /\ y[i] = 0
               /\ \A j \in (i + 1)..UintBits : x[j] = y[j]

\* byte(x): the low 8 bits
ToByte(x) == x[1] + 2 * x[2] + 4 * x[3] + 8 * x[4]
             + 16 * x[5] + 32 * x[6] + 64 * x[7] + 128 * x[8]

\* the natural a bit vector stands for, when it is below 2^31
ToNat(x) == LET s[i \in 0..31] == IF i = 0 THEN 0 ELSE s[i - 1] + x[i] * Pow2(i - 1)
            IN  s[31]

FitsNat(x) == \A i \in 32..UintBits : x[i] = 0

(***************************************************************************)
(* Size codec: size.go                                                     *)
(***************************************************************************)
id3SizeLen == 4

synchSafeSizeBase == 7

synchUnsafeSizeBase == 8

\* 268435455 == 2^28 - 1
synchSafeMaxSize == [i \in 1..UintBits |-> IF i <= 28 THEN 1 ELSE 0]

\* 4294967295 == 2^32 - 1
synchUnsafeMaxSize == [i \in 1..UintBits |-> IF i <= 32 THEN 1 ELSE 0]

\* uint(254 << 24): bits 25..31 (counted from 0)
synchSafeMask == [i \in 1..UintBits |-> IF i >= 26 /\ i <= 32 THEN 1 ELSE 0]

\* uint(255 << 24): bits 24..31 (counted from 0)
synchUnsafeMask == [i \in 1..UintBits |-> IF i >= 25 /\ i <= 32 THEN 1 ELSE 0]

\* the loop of writeSynchSafeBytesSize: n bytes still to write from size
RECURSIVE SynchSafeLoop(_, _)
SynchSafeLoop(size, n) ==
    IF n = 0 THEN <<>>
    ELSE <<ToByte(Shr(BitAnd(size, synchSafeMask), 3 * 8 + 1))>>
         \o SynchSafeLoop(Shl(size, synchSafeSizeBase), n - 1)

\* the loop with the chunks taken 8 bits apart
RECURSIVE SynchSafeLoopBase8(_, _)
SynchSafeLoopBase8(size, n) ==
    IF n = 0 THEN <<>>
    ELSE <<ToByte(Shr(BitAnd(size, synchSafeMask), 3 * 8 + 1))>>
         \o SynchSafeLoopBase8(Shl(size, synchUnsafeSizeBase), n - 1)

writeSynchSafeBytesSizeBase8(size) ==
    IF Gt(size, synchSafeMaxSize)
    THEN [out |-> <<>>, err |-> "ErrSizeOverflow"]
    ELSE [out |-> SynchSafeLoopBase8(Shl(size, 4), id3SizeLen), err |-> "nil"]

\* writeSynchSafeBytesSize: the bytes written to bw and the error returned
writeSynchSafeBytesSize(size) ==
    IF Gt(size, synchSafeMaxSize)
    THEN [out |-> <<>>, err |-> "ErrSizeOverflow"]
    ELSE [out |-> SynchSafeLoop(Shl(size, 4), id3SizeLen), err |-> "nil"]

RECURSIVE SynchUnsafeLoop(_, _)
SynchUnsafeLoop(size, n) ==
    IF n = 0 THEN <<>>
    ELSE <<ToByte(Shr(BitAnd(size, synchUnsafeMask), 3 * 8))>>
         \o SynchUnsafeLoop(Shl(size, synchUnsafeSizeBase), n - 1)

\* writeSynchUnsafeBytesSize without the test against synchUnsafeMaxSize
writeSynchUnsafeBytesSizeUnchecked(size) ==
    [out |-> SynchUnsafeLoop(size, id3SizeLen), err |-> "nil"]

writeSynchUnsafeBytesSize(size) ==
    IF Gt(size, synchUnsafeMaxSize)
    THEN [out |-> <<>>, err |-> "ErrSizeOverflow"]
    ELSE [out |-> SynchUnsafeLoop(size, id3SizeLen), err |-> "nil"]

writeBytesSize(size, synchSafe) ==
    IF synchSafe THEN writeSynchSafeBytesSize(size)
    ELSE writeSynchUnsafeBytesSize(size)

\* the loop of parseSize without the test of the most significant bit
RECURSIVE ParseSizeLoopUnchecked(_, _, _, _)
ParseSizeLoopUnchecked(data, k, size, synchSafe) ==
    IF k > Len(data) THEN [size |-> size, err |-> "nil"]
    ELSE ParseSizeLoopUnchecked(data, k + 1,
             BitOr(Shl(size, IF synchSafe THEN synchSafeSizeBase ELSE synchUnsafeSizeBase),
                   FromNat(data[k])),
             synchSafe)

\* the loop of parseSize over data[k..], size being the value accumulated so far
RECURSIVE ParseSizeLoop(_, _, _, _)
ParseSizeLoop(data, k, size, synchSafe) ==
    IF k > Len(data) THEN [size |-> size, err |-> "nil"]
    ELSE IF synchSafe /\ data[k] >= 128
         THEN [size |-> Zero64, err |-> "ErrInvalidSizeFormat"]
         ELSE ParseSizeLoop(data, k + 1,
                  BitOr(Shl(size, IF synchSafe THEN synchSafeSizeBase
                                  ELSE synchUnsafeSizeBase),
                        FromNat(data[k])),
                  synchSafe)

parseSize(data, synchSafe) ==
    IF Len(data) > id3SizeLen
    THEN [size |-> Zero64, err |-> "ErrInvalidSizeFormat"]
    ELSE ParseSizeLoop(data, 1, Zero64, synchSafe)

(***************************************************************************)
(* Inputs of the size codec                                                *)
(***************************************************************************)
\* values a 7- or 8-bit chunk of an input size takes
ChunkChoices(base) ==
    IF base = 7 THEN {0, 1, 64, 119, 127} ELSE {0, 1, 128, 255}

\* what stands above the 4 chunks of an input size (0: the size is in range)
HighChoices == {0, 1, 6}

\* the uint with chunks c[1] (most significant) .. c[4] of `base` bits each
\* and hi above them
FromChunks(base, c, hi) ==
    [i \in 1..UintBits |->
        IF i <= 4 * base
        THEN (c[4 - ((i - 1) \div base)] \div Pow2((i - 1) % base)) % 2
        ELSE IF i - 4 * base <= 3 THEN (hi \div Pow2(i - 4 * base - 1)) % 2 ELSE 0]

SizeInputs(synchSafe) ==
    LET base == IF synchSafe THEN synchSafeSizeBase ELSE synchUnsafeSizeBase
    IN  { FromChunks(base, c, hi) : c \in [1..4 -> ChunkChoices(base)], hi \in HighChoices }

\* longest byte string handed to parseSize directly
MaxDataLen == 5

DataByteChoices == {0, 119, 128, 255}

DataInputs == UNION { [1..n -> DataByteChoices] : n \in 0..MaxDataLen }

(***************************************************************************)
(* Text: a Go string holding valid UTF-8 is the sequence of its runes; its *)
(* bytes, and so len(s), come from the UTF-8 form of each rune.            *)
(***************************************************************************)
RECURSIVE Flatten(_)
Flatten(ss) == IF ss = <<>> THEN <<>> ELSE Head(ss) \o Flatten(Tail(ss))

Utf8(r) ==
    IF r < 128 THEN <<r>>
    ELSE IF r < 2048 THEN <<192 + (r \div 64), 128 + (r % 64)>>
    ELSE IF r < 65536
         THEN <<224 + (r \div 4096), 128 + ((r \div 64) % 64), 128 + (r % 64)>>
         ELSE <<240 + (r \div 262144), 128 + ((r \div 4096) % 64),
                128 + ((r \div 64) % 64), 128 + (r % 64)>>

\* []byte(s)
StrBytes(s) == Flatten([i \in 1..Len(s) |-> Utf8(s[i])])

\* len(s)
StrLen(s) == Len(StrBytes(s))

\* big-endian UTF-16 code units of a rune, as bytes
Utf16BE(r) ==
    IF r < 65536 THEN <<r \div 256, r % 256>>
    ELSE LET v  == r - 65536
             hi == 55296 + (v \div 1024)
             lo == 56320 + (v % 1024)
         IN  <<hi \div 256, hi % 256, lo \div 256, lo % 256>>

(***************************************************************************)
(* Encodings: part_003 (encoding.go).  An Encoding is known by its Key.    *)
(***************************************************************************)
EncodingISOKey == 0

EncodingUTF16Key == 1

EncodingUTF16BEKey == 2

EncodingUTF8Key == 3

EncodingKeys == {EncodingISOKey, EncodingUTF16Key, EncodingUTF16BEKey, EncodingUTF8Key}

\* Encoding.TerminationBytes
TerminationBytes(enc) ==
    IF enc = EncodingUTF16Key \/ enc = EncodingUTF16BEKey THEN <<0, 0>> ELSE <<0>>

\* toXEncoding.NewEncoder().String(src): the encoded bytes, or an error when the
\* charmap has no byte for a rune
XEncode(src, to) ==
    IF to = EncodingISOKey
    THEN IF \E i \in 1..Len(src) : src[i] > 255
         THEN [bytes |-> <<>>, err |-> "ErrRepertoire"]
         ELSE [bytes |-> src, err |-> "nil"]
    ELSE IF to = EncodingUTF16Key
    THEN [bytes |-> <<254, 255>> \o Flatten([i \in 1..Len(src) |-> Utf16BE(src[i])]),
          err |-> "nil"]
    ELSE IF to = EncodingUTF16BEKey
    THEN [bytes |-> Flatten([i \in 1..Len(src) |-> Utf16BE(src[i])]), err |-> "nil"]
    ELSE [bytes |-> StrBytes(src), err |-> "nil"]

(***************************************************************************)
(* bufferedWriter: buffered_writer.go.  A writer is the bytes it has       *)
(* accepted, how many of them its bufio.Writer has passed on to the        *)
(* destination, its counter and its sticky error.  The destination accepts *)
(* every byte.                                                             *)
(***************************************************************************)
\* bufio.NewWriter(w): a buffer of 4096 bytes
writerBufSize == 4096

NewBw == [out |-> <<>>, flushed |-> 0, written |-> 0, err |-> "nil"]

\* what the destination has received
Received(bw) == SubSeq(bw.out, 1, bw.flushed)

\* bw.w.Buffered()
Buffered(bw) == Len(bw.out) - bw.flushed

\* bw.w.Flush()
BufioFlush(bw) == [bw EXCEPT !.flushed = Len(bw.out)]

\* bw.Flush(): nothing is flushed once the writer holds an error
BwFlush(bw) == IF bw.err # "nil" THEN bw ELSE BufioFlush(bw)

\* bw.w.WriteByte(c): a full buffer is flushed first
BufioWriteByte(bw, c) ==
    [bw EXCEPT !.out = Append(@, c),
               !.flushed = IF Buffered(bw) >= writerBufSize THEN Len(bw.out) ELSE @]

\* bw.w.Write(p), and bw.w.WriteString(s) on a destination that has WriteString:
\* what does not fit fills the buffer, which is flushed; then what is longer than
\* the empty buffer goes to the destination at once
BufioWrite(bw, p) ==
    [bw EXCEPT !.out = @ \o p,
               !.flushed =
                   IF Len(p) <= writerBufSize - Buffered(bw) THEN @
                   ELSE IF Buffered(bw) = 0 THEN Len(bw.out) + Len(p)
                   ELSE IF Len(p) - (writerBufSize - Buffered(bw)) > writerBufSize
                   THEN Len(bw.out) + Len(p)
                   ELSE @ + writerBufSize]

BwWriteByte(bw, c) ==
    IF bw.err # "nil" THEN bw
    ELSE [BufioWriteByte(bw, c) EXCEPT !.written = @ + 1]

\* bw.WriteString(s) and bw.Write(p), p being the bytes
BwWrite(bw, p) ==
    IF bw.err # "nil" THEN bw
    ELSE [BufioWrite(bw, p) EXCEPT !.written = @ + Len(p)]

\* encodeWriteText(bw, src, to): the writer afterwards and the error returned
encodeWriteText(bw, src, to) ==
    IF to = EncodingUTF8Key
    THEN [bw |-> BwWrite(bw, StrBytes(src)), err |-> "nil"]
    ELSE LET e == XEncode(src, to) IN
         IF e.err # "nil" THEN [bw |-> bw, err |-> e.err]
         ELSE LET b1 == BwWrite(bw, e.bytes)
                  b2 == IF to = EncodingUTF16Key
                           /\ ~(Len(e.bytes) > 0 /\ e.bytes[Len(e.bytes)] = 0)
                        THEN BwWriteByte(b1, 0) ELSE b1
              IN  [bw |-> b2, err |-> "nil"]

\* bw.EncodeAndWriteText(src, to)
BwEncodeAndWriteText(bw, src, to) ==
    IF bw.err # "nil" THEN bw
    ELSE LET r == encodeWriteText(bw, src, to)
         IN  [r.bw EXCEPT !.err = r.err]

\* bw.WriteBytesSize(size, synchSafe), size a natural below 2^31
BwWriteBytesSize(bw, size, synchSafe) ==
    IF bw.err # "nil" THEN bw
    ELSE LET r == writeBytesSize(FromNat(size), synchSafe)
         IN  [BwWrite(bw, r.out) EXCEPT !.err = r.err]

\* encodedSize(src, enc) panics when the text cannot be encoded
encodedSizePanics(src, enc) ==
    enc # EncodingUTF8Key /\ encodeWriteText(NewBw, src, enc).err # "nil"

\* encodedSize(src, enc), when it does not panic
encodedSize(src, enc) ==
    IF enc = EncodingUTF8Key THEN StrLen(src)
    ELSE encodeWriteText(NewBw, src, enc).bw.written

(***************************************************************************)
(* Frames.  A frame is a record whose kind names the Go type; an optional  *)
(* pointer field (ChapterFrame.Title, ...) is <<>> for nil and <<f>> for   *)
(* a pointer to f.  uint32 fields are bit vectors, a big.Int is the bytes  *)
(* of its magnitude (big.Int.Bytes()), a time.Duration is in nanoseconds.  *)
(***************************************************************************)
frameHeaderSize == 10

tagHeaderSize == 10

nanosInMillis == 1000000

\* binary.BigEndian.PutUint32 / binary.Write of a uint32
PutUint32(x) == <<ToByte(Shr(x, 24)), ToByte(Shr(x, 16)), ToByte(Shr(x, 8)), ToByte(x)>>

\* Go's integer division truncates toward zero
GoDiv(a, b) == IF a >= 0 THEN a \div b ELSE -((-a) \div b)

\* binary.Write of an int32 v (|v| < 2^31): two's complement, big endian
PutInt32(v) ==
    IF v >= 0 THEN PutUint32(FromNat(v))
    ELSE LET p == PutUint32(FromNat(-v - 1))
         IN  [i \in 1..4 |-> 255 - p[i]]

\* truncateInt64ToInt32, on the values the model's durations take
truncateInt64ToInt32(v) ==
    IF v < -2147483647 - 1 THEN -2147483647 - 1
    ELSE IF v > 2147483647 THEN 2147483647 ELSE v

\* fmt.Sprintf("%02X", b)
HexDigit(d) == IF d < 10 THEN 48 + d ELSE 55 + d

Hex02(b) == <<HexDigit(b \div 16), HexDigit(b % 16)>>

\* strconv.Itoa(n), n >= 0
RECURSIVE Itoa(_)
Itoa(n) == IF n < 10 THEN <<48 + n>> ELSE Itoa(n \div 10) \o <<48 + (n % 10)>>

TextFrame(enc, text) == [kind |-> "TextFrame", Encoding |-> enc, Text |-> text]

LinkFrame(enc, url) == [kind |-> "LinkFrame", Encoding |-> enc, URL |-> url]

UserDefinedTextFrame(enc, desc, value) ==
    [kind |-> "UserDefinedTextFrame", Encoding |-> enc, Description |-> desc, Value |-> value]

CommentFrame(enc, lang, desc, text) ==
    [kind |-> "CommentFrame", Encoding |-> enc, Language |-> lang,
     Description |-> desc, Text |-> text]

UnsynchronisedLyricsFrame(enc, lang, desc, lyrics) ==
    [kind |-> "UnsynchronisedLyricsFrame", Encoding |-> enc, Language |-> lang,
     ContentDescriptor |-> desc, Lyrics |-> lyrics]

SynchronisedLyricsFrame(enc, lang, tsf, ct, desc, texts) ==
    [kind |-> "SynchronisedLyricsFrame", Encoding |-> enc, Language |-> lang,
     TimestampFormat |-> tsf, ContentType |-> ct, ContentDescriptor |-> desc,
     SynchronizedTexts |-> texts]

PictureFrame(enc, mime, ptype, desc, picture) ==
    [kind |-> "PictureFrame", Encoding |-> enc, MimeType |-> mime,
     PictureType |-> ptype, Description |-> desc, Picture |-> picture]

PopularimeterFrame(email, rating, counter) ==
    [kind |-> "PopularimeterFrame", Email |-> email, Rating |-> rating, Counter |-> counter]

UFIDFrame(owner, ident) ==
    [kind |-> "UFIDFrame", OwnerIdentifier |-> owner, Identifier |-> ident]

ChapterFrame(elem, st, et, so, eo, title, descr) ==
    [kind |-> "ChapterFrame", ElementID |-> elem, StartTime |-> st, EndTime |-> et,
     StartOffset |-> so, EndOffset |-> eo, Title |-> title, Description |-> descr]

UnknownFrame(body) == [kind |-> "UnknownFrame", Body |-> body]

\* TitleFrameID "TIT2" and SubtitleRefinementFrameID "TIT3"
TitleFrameID == <<84, 73, 84, 50>>

SubtitleRefinementFrameID == <<84, 73, 84, 51>>

(***************************************************************************)
(* UniqueIdentifier.  UnknownFrame draws rand.Int() at every call: r is    *)
(* the number drawn by this call.                                          *)
(***************************************************************************)
textFrameUniqueIdentifier == <<73, 68>>

UniqueIdentifier(f, r) ==
    CASE f.kind = "TextFrame" -> textFrameUniqueIdentifier
      [] f.kind = "LinkFrame" -> textFrameUniqueIdentifier
      [] f.kind = "UserDefinedTextFrame" -> f.Description
      [] f.kind = "CommentFrame" -> f.Language \o f.Description
      [] f.kind = "UnsynchronisedLyricsFrame" -> f.Language \o f.ContentDescriptor
      [] f.kind = "SynchronisedLyricsFrame" -> f.Language \o f.ContentDescriptor
      [] f.kind = "PictureFrame" -> Hex02(f.PictureType) \o f.Description
      [] f.kind = "PopularimeterFrame" -> f.Email
      [] f.kind = "UFIDFrame" -> f.OwnerIdentifier
      [] f.kind = "ChapterFrame" -> f.ElementID
      [] f.kind = "UnknownFrame" -> Itoa(r)

(***************************************************************************)
(* Size().  Each Size method is a sum; its terms are listed in the order   *)
(* the method adds them: a number, or a text whose encodedSize is taken.   *)
(* Size() panics when encodedSize cannot encode one of the texts.          *)
(***************************************************************************)
\* PopularimeterFrame.counterBytes
counterBytes(f) ==
    IF 4 - Len(f.Counter) > 0
    THEN [i \in 1..(4 - Len(f.Counter)) |-> 0] \o f.Counter
    ELSE f.Counter

Num(n) == [term |-> "number", n |-> n]

Enc(src, enc) == [term |-> "encodedSize", src |-> src, enc |-> enc]

TermLen(enc) == Num(Len(TerminationBytes(enc)))

TextFrameTerms(f) == <<Num(1), Enc(f.Text, f.Encoding), TermLen(f.Encoding)>>

\* the per-line terms of SynchronisedLyricsFrame.Size's loop
SyltLoopTerms(f) ==
    Flatten([i \in 1..Len(f.SynchronizedTexts) |->
                <<Enc(f.SynchronizedTexts[i].Text, f.Encoding), TermLen(f.Encoding), Num(4)>>])

SubframeTerms(sub) ==
    IF sub # <<>> THEN <<Num(frameHeaderSize)>> \o TextFrameTerms(sub[1]) ELSE <<>>

SizeTerms(f) ==
    CASE f.kind = "TextFrame" -> TextFrameTerms(f)
      [] f.kind = "LinkFrame" -> <<Num(1), Enc(f.URL, f.Encoding), TermLen(f.Encoding)>>
      [] f.kind = "UserDefinedTextFrame" ->
            <<Num(1), Enc(f.Description, f.Encoding), TermLen(f.Encoding),
              Enc(f.Value, f.Encoding)>>
      [] f.kind = "CommentFrame" ->
            <<Num(1), Num(StrLen(f.Language)), Enc(f.Description, f.Encoding),
              TermLen(f.Encoding), Enc(f.Text, f.Encoding)>>
      [] f.kind = "UnsynchronisedLyricsFrame" ->
            <<Num(1), Num(StrLen(f.Language)), Enc(f.ContentDescriptor, f.Encoding),
              TermLen(f.Encoding), Enc(f.Lyrics, f.Encoding)>>
      [] f.kind = "SynchronisedLyricsFrame" ->
            SyltLoopTerms(f)
            \o <<Num(1), Num(StrLen(f.Language)), Enc(f.ContentDescriptor, f.Encoding),
                 TermLen(f.Encoding), Num(1), Num(1)>>
      [] f.kind = "PictureFrame" ->
            <<Num(1), Num(StrLen(f.MimeType)), Num(1), Num(1),
              Enc(f.Description, f.Encoding), TermLen(f.Encoding), Num(Len(f.Picture))>>
      [] f.kind = "PopularimeterFrame" ->
            <<Num(StrLen(f.Email)), Num(1), Num(1), Num(Len(counterBytes(f)))>>
      [] f.kind = "UFIDFrame" ->
            <<Enc(f.OwnerIdentifier, EncodingISOKey), TermLen(EncodingISOKey),
              Num(Len(f.Identifier))>>
      [] f.kind = "ChapterFrame" ->
            <<Enc(f.ElementID, EncodingISOKey), Num(1), Num(4), Num(4), Num(4), Num(4)>>
            \o SubframeTerms(f.Title) \o SubframeTerms(f.Description)
      [] f.kind = "UnknownFrame" -> <<Num(Len(f.Body))>>

RECURSIVE SumTerms(_)
SumTerms(ts) ==
    IF ts = <<>> THEN 0
    ELSE (IF Head(ts).term = "number" THEN Head(ts).n
          ELSE encodedSize(Head(ts).src, Head(ts).enc))
         + SumTerms(Tail(ts))

TermsPanic(ts) ==
    \E i \in 1..Len(ts) :
        ts[i].term = "encodedSize" /\ encodedSizePanics(ts[i].src, ts[i].enc)

\* f.Size() panics
SizePanics(f) == TermsPanic(SizeTerms(f))

\* f.Size(), when it does not panic
Size(f) == SumTerms(SizeTerms(f))

(***************************************************************************)
(* WriteTo.  The closure a WriteTo hands to useBufferedWriter is the list  *)
(* of calls it makes on the writer, in order.  A call whose error the      *)
(* closure checks ("checked") ends the closure when it returns an error.   *)
(***************************************************************************)
WriteByteOp(c) == [call |-> "WriteByte", c |-> c]

WriteStringOp(s) == [call |-> "WriteString", p |-> StrBytes(s)]

EncodeAndWriteTextOp(src, to) == [call |-> "EncodeAndWriteText", src |-> src, to |-> to]

WriteBytesSizeOp(size, synchSafe) ==
    [call |-> "WriteBytesSize", size |-> size, synchSafe |-> synchSafe]

\* _, err = bw.Write(p); if err != nil { return err }
WriteOp(p) == [call |-> "Write", p |-> p]

\* the Flush that ends a nested WriteTo on the same writer
FlushOp == [call |-> "Flush"]

\* frame.Size() as writeFrame calls it on a subframe: it panics when the
\* subframe's text cannot be encoded
SizeOp(f) == [call |-> "Size", f |-> f]

\* truncateIntToUint
truncateIntToUint(value) == IF value < 0 THEN 0 ELSE value

\* writeFrameHeader(bw, id, frameSize, synchSafe)
writeFrameHeaderOps(id, frameSize, synchSafe) ==
    <<[call |-> "WriteString", p |-> id], WriteBytesSizeOp(frameSize, synchSafe),
      WriteOp(<<0, 0>>)>>

TextFrameOps(f) ==
    <<WriteByteOp(f.Encoding), EncodeAndWriteTextOp(f.Text, f.Encoding),
      WriteOp(TerminationBytes(f.Encoding))>>

\* writeFrame(bw, id, *sub, true) inside ChapterFrame.WriteTo
SubframeOps(id, sub) ==
    IF sub # <<>>
    THEN <<SizeOp(sub[1])>>
         \o writeFrameHeaderOps(id, truncateIntToUint(Size(sub[1])), TRUE)
         \o TextFrameOps(sub[1]) \o <<FlushOp>>
    ELSE <<>>

SyltLoopOps(f) ==
    Flatten([i \in 1..Len(f.SynchronizedTexts) |->
                <<EncodeAndWriteTextOp(f.SynchronizedTexts[i].Text, f.Encoding),
                  WriteOp(TerminationBytes(f.Encoding)),
                  WriteOp(PutUint32(f.SynchronizedTexts[i].Timestamp))>>])

WriteOps(f) ==
    CASE f.kind = "TextFrame" -> TextFrameOps(f)
      [] f.kind = "LinkFrame" ->
            <<WriteByteOp(f.Encoding), EncodeAndWriteTextOp(f.URL, f.Encoding),
              WriteOp(TerminationBytes(f.Encoding))>>
      [] f.kind = "UserDefinedTextFrame" ->
            <<WriteByteOp(f.Encoding), EncodeAndWriteTextOp(f.Description, f.Encoding),
              WriteOp(TerminationBytes(f.Encoding)),
              EncodeAndWriteTextOp(f.Value, f.Encoding)>>
      [] f.kind = "CommentFrame" ->
            <<WriteByteOp(f.Encoding), WriteStringOp(f.Language),
              EncodeAndWriteTextOp(f.Description, f.Encoding),
              WriteOp(TerminationBytes(f.Encoding)),
              EncodeAndWriteTextOp(f.Text, f.Encoding)>>
      [] f.kind = "UnsynchronisedLyricsFrame" ->
            <<WriteByteOp(f.Encoding), WriteStringOp(f.Language),
              EncodeAndWriteTextOp(f.ContentDescriptor, f.Encoding),
              WriteOp(TerminationBytes(f.Encoding)),
              EncodeAndWriteTextOp(f.Lyrics, f.Encoding)>>
      [] f.kind = "SynchronisedLyricsFrame" ->
            <<WriteByteOp(f.Encoding), WriteStringOp(f.Language),
              WriteByteOp(f.TimestampFormat), WriteByteOp(f.ContentType),
              EncodeAndWriteTextOp(f.ContentDescriptor, f.Encoding),
              WriteOp(TerminationBytes(f.Encoding))>>
            \o SyltLoopOps(f)
      [] f.kind = "PictureFrame" ->
            <<WriteByteOp(f.Encoding), WriteStringOp(f.MimeType), WriteByteOp(0),
              WriteByteOp(f.PictureType), EncodeAndWriteTextOp(f.Description, f.Encoding),
              WriteOp(TerminationBytes(f.Encoding)), WriteOp(f.Picture)>>
      [] f.kind = "PopularimeterFrame" ->
            <<WriteStringOp(f.Email), WriteByteOp(0), WriteByteOp(f.Rating),
              WriteOp(counterBytes(f))>>
      [] f.kind = "UFIDFrame" ->
            <<WriteStringOp(f.OwnerIdentifier), WriteOp(TerminationBytes(EncodingISOKey)),
              WriteOp(f.Identifier)>>
      [] f.kind = "ChapterFrame" ->
            <<EncodeAndWriteTextOp(f.ElementID, EncodingISOKey), WriteByteOp(0),
              WriteOp(PutInt32(truncateInt64ToInt32(GoDiv(f.StartTime, nanosInMillis)))),
              WriteOp(PutInt32(truncateInt64ToInt32(GoDiv(f.EndTime, nanosInMillis)))),
              WriteOp(PutUint32(f.StartOffset)), WriteOp(PutUint32(f.EndOffset))>>
            \o SubframeOps(TitleFrameID, f.Title)
            \o SubframeOps(SubtitleRefinementFrameID, f.Description)

\* one call on the writer
BwCall(bw, c) ==
    CASE c.call = "WriteByte" -> BwWriteByte(bw, c.c)
      [] c.call = "WriteString" -> BwWrite(bw, c.p)
      [] c.call = "EncodeAndWriteText" -> BwEncodeAndWriteText(bw, c.src, c.to)
      [] c.call = "WriteBytesSize" -> BwWriteBytesSize(bw, c.size, c.synchSafe)
      [] c.call = "Write" -> BwWrite(bw, c.p)
      [] c.call = "Flush" -> BwFlush(bw)

\* the closure run on bw: the writer afterwards, the error it returns and
\* whether it panicked instead of returning.
\* bw.Write and bw.Flush return the writer's sticky error.
RECURSIVE RunOps(_, _)
RunOps(bw, ops) ==
    IF ops = <<>> THEN [bw |-> bw, err |-> "nil", panic |-> FALSE]
    ELSE IF Head(ops).call = "Size"
    THEN IF SizePanics(Head(ops).f) THEN [bw |-> bw, err |-> "nil", panic |-> TRUE]
         ELSE RunOps(bw, Tail(ops))
    ELSE IF Head(ops).call \in {"Write", "Flush"} /\ bw.err # "nil"
         THEN [bw |-> bw, err |-> bw.err, panic |-> FALSE]
         ELSE RunOps(BwCall(bw, Head(ops)), Tail(ops))

\* useBufferedWriter(w, writeFunc): bw0 is the writer before, r the closure's
\* result; bufferedWriter.Flush() returns the writer's sticky error, and flushes
\* when there is none
useBufferedWriter(bw0, r) ==
    IF r.panic
    THEN [bw |-> r.bw, n |-> 0, err |-> "nil", panic |-> TRUE]
    ELSE IF r.err # "nil"
    THEN [bw |-> r.bw, n |-> bw0.written, err |-> r.err, panic |-> FALSE]
    ELSE [bw |-> BwFlush(r.bw), n |-> r.bw.written - bw0.written, err |-> r.bw.err,
          panic |-> FALSE]

HasLanguage(f) ==
    f.kind \in {"CommentFrame", "UnsynchronisedLyricsFrame", "SynchronisedLyricsFrame"}

\* frame.WriteTo(bw) without the check of the language
WriteToAnyLanguage(f, bw) ==
    IF f.kind = "UnknownFrame"
    THEN [bw |-> BwWrite(bw, f.Body),
          n |-> IF bw.err # "nil" THEN 0 ELSE Len(f.Body),
          err |-> bw.err, panic |-> FALSE]
    ELSE useBufferedWriter(bw, RunOps(bw, WriteOps(f)))

\* frame.WriteTo(bw): the writer afterwards, the count and the error returned,
\* or a panic (ChapterFrame.WriteTo asks each subframe for its Size())
WriteTo(f, bw) ==
    IF f.kind = "UnknownFrame"
    THEN [bw |-> BwWrite(bw, f.Body),
          n |-> IF bw.err # "nil" THEN 0 ELSE Len(f.Body),
          err |-> bw.err, panic |-> FALSE]
    ELSE IF HasLanguage(f) /\ StrLen(f.Language) # 3
    THEN [bw |-> bw, n |-> 0, err |-> "ErrInvalidLanguageLength", panic |-> FALSE]
    ELSE useBufferedWriter(bw, RunOps(bw, WriteOps(f)))

(***************************************************************************)
(* Decoding: part_003 (encoding.go).  A decoded Go string is kept as its   *)
(* bytes, since decodeText can return bytes that are not valid UTF-8.      *)
(***************************************************************************)
bom == <<255, 254>>

\* getEncoding(key), as the key of the encoding
getEncoding(key) == IF key > 3 THEN EncodingUTF8Key ELSE key

\* bytes.TrimSuffix(src, suffix)
TrimSuffix(src, suffix) ==
    IF Len(src) >= Len(suffix) /\ SubSeq(src, Len(src) - Len(suffix) + 1, Len(src)) = suffix
    THEN SubSeq(src, 1, Len(src) - Len(suffix))
    ELSE src

\* utf8.RuneError
RuneError == 65533

IsSurrogate(r) == r >= 55296 /\ r < 57344

\* utf16.DecodeRune(r1, r2)
DecodeRune(r1, r2) ==
    IF r1 >= 55296 /\ r1 < 56320 /\ r2 >= 56320 /\ r2 < 57344
    THEN (r1 - 55296) * 1024 + (r2 - 56320) + 65536
    ELSE RuneError

\* the 16-bit unit at src[k], src[k+1]
Utf16Unit(src, k, little) ==
    IF little THEN src[k + 1] * 256 + src[k] ELSE src[k] * 256 + src[k + 1]

\* utf16Decoder.Transform at the end of the input, from src[k] on: the runes
RECURSIVE Utf16DecodeFrom(_, _, _)
Utf16DecodeFrom(src, k, little) ==
    IF k > Len(src) THEN <<>>
    ELSE IF k = Len(src) THEN <<RuneError>>
    ELSE IF IsSurrogate(Utf16Unit(src, k, little))
    THEN IF k + 3 <= Len(src)
            /\ Utf16Unit(src, k + 2, little) >= 56320
            /\ Utf16Unit(src, k + 2, little) < 57344
         THEN <<DecodeRune(Utf16Unit(src, k, little), Utf16Unit(src, k + 2, little))>>
              \o Utf16DecodeFrom(src, k + 4, little)
         ELSE <<RuneError>> \o Utf16DecodeFrom(src, k + 2, little)
    ELSE <<Utf16Unit(src, k, little)>> \o Utf16DecodeFrom(src, k + 2, little)

\* fromXEncoding.NewDecoder().Bytes(src): the runes decoded, or an error.  Both
\* encodings resolveXEncoding gives for UTF-16 with BOM require the mark and take
\* the byte order from it.
XDecode(src, from) ==
    IF from = EncodingISOKey THEN [runes |-> src, err |-> "nil"]
    ELSE IF from = EncodingUTF16Key
    THEN IF Len(src) < 2 THEN [runes |-> <<>>, err |-> "ErrMissingBOM"]
         ELSE IF SubSeq(src, 1, 2) = <<254, 255>>
         THEN [runes |-> Utf16DecodeFrom(src, 3, FALSE), err |-> "nil"]
         ELSE IF SubSeq(src, 1, 2) = bom
         THEN [runes |-> Utf16DecodeFrom(src, 3, TRUE), err |-> "nil"]
         ELSE [runes |-> <<>>, err |-> "ErrMissingBOM"]
    ELSE [runes |-> Utf16DecodeFrom(src, 1, FALSE), err |-> "nil"]

\* the runes without the replacement characters
RECURSIVE WithoutRuneError(_)
WithoutRuneError(rs) ==
    IF rs = <<>> THEN <<>>
    ELSE IF Head(rs) = RuneError THEN WithoutRuneError(Tail(rs))
    ELSE <<Head(rs)>> \o WithoutRuneError(Tail(rs))

\* decodeText after the termination bytes were trimmed
decodeTrimmed(src, from) ==
    IF from = EncodingUTF8Key THEN src
    ELSE IF from = EncodingUTF16Key /\ src = bom THEN <<>>
    ELSE IF XDecode(src, from).err # "nil" THEN src
    ELSE IF from = EncodingUTF16Key THEN StrBytes(WithoutRuneError(XDecode(src, from).runes))
    ELSE StrBytes(XDecode(src, from).runes)

\* decodeText(src, from): the bytes of the string returned
decodeText(src, from) == decodeTrimmed(TrimSuffix(src, TerminationBytes(from)), from)

(***************************************************************************)
(* bufferedReader: buffered_reader.go.  A bufferedReader is a bufio.Reader *)
(* and a sticky error.  Of the bufio.Reader, buf is the memory of its      *)
(* buffer as far as it was ever written, r and w are the read and write    *)
(* positions in it, src the bytes its source has not delivered yet, rerr   *)
(* the error of the last read of the source and last the byte UnreadByte   *)
(* puts back (-1: none).  The source gives io.EOF only when nothing is     *)
(* left.  It is a limited reader over a bufio.Reader, of which up holds    *)
(* the counts: c bytes that reader has handed out, p bytes it has taken    *)
(* from its own source, which holds len bytes and delivers min(len(p),     *)
(* rest) bytes at a Read.  At a Read the reader below hands out what it    *)
(* has buffered; with nothing buffered it reads its source into p when p   *)
(* is no smaller than its buffer, and else fills its buffer once.  A       *)
(* source that delivers min(len(p), rest) bytes at a Read itself, a file   *)
(* or a limited reader over one, is the same as a reader below that has    *)
(* all its bytes buffered: p = len.  A slice of the buffer that Peek hands *)
(* out is kept as its two ends lo and hi: its bytes are what the buffer    *)
(* holds there when they are looked at.                                    *)
(***************************************************************************)
\* the size of the buffer bufio.NewReader gives a reader
defaultBufSize == 4096

Min2(a, b) == IF a < b THEN a ELSE b

Max2(a, b) == IF a > b THEN a ELSE b

\* a source of len bytes that delivers min(len(p), rest) bytes at a Read
PlainSource(len) == [c |-> 0, p |-> len, len |-> len]

NewBr(data) ==
    [buf |-> <<>>, r |-> 0, w |-> 0, src |-> data, rerr |-> "nil", last |-> -1,
     err |-> "nil", up |-> PlainSource(Len(data))]

\* how many bytes the reader below hands out at a Read of k bytes, k > 0 being no
\* more than the limited reader and that reader's source have left
UpGot(up, k) == IF up.c < up.p THEN Min2(k, up.p - up.c) ELSE k

\* the reader below after that Read
UpRead(up, k) ==
    IF up.c < up.p THEN [up EXCEPT !.c = up.c + Min2(k, up.p - up.c)]
    ELSE IF k >= defaultBufSize THEN [up EXCEPT !.c = up.c + k, !.p = up.c + k]
    ELSE [up EXCEPT !.c = up.c + k, !.p = Min2(up.c + defaultBufSize, up.len)]

\* how many bytes the source of br delivers at a Read of n > 0 bytes
SrcGot(br, n) == UpGot(br.up, Min2(n, Len(br.src)))

\* br once its source has delivered got bytes at a Read of n bytes
SrcRead(br, n, got) ==
    [br EXCEPT !.src = SubSeq(br.src, got + 1, Len(br.src)),
               !.up = UpRead(br.up, Min2(n, Len(br.src)))]

\* the bytes br has not handed out
Unread(br) == SubSeq(br.buf, br.r + 1, br.w) \o br.src

\* the buffer after copy(b.buf, b.buf[b.r:b.w])
BufSlid(br) ==
    IF br.r > 0
    THEN SubSeq(br.buf, br.r + 1, br.w) \o SubSeq(br.buf, br.w - br.r + 1, Len(br.buf))
    ELSE br.buf

\* memory with data put at offset at
BufPut(buf, at, data) ==
    SubSeq(buf, 1, at) \o data \o SubSeq(buf, at + Len(data) + 1, Len(buf))

\* b.fill(), the buffer not being full: the unread bytes slide to the start of the
\* buffer, then one Read of the source into the room behind them
BufFilled(br, got) ==
    [SrcRead(br, defaultBufSize - (br.w - br.r), got)
        EXCEPT !.buf = BufPut(BufSlid(br), br.w - br.r, SubSeq(br.src, 1, got)),
               !.r = 0,
               !.w = br.w - br.r + got]

BufFill(br) ==
    IF br.src = <<>>
    THEN [br EXCEPT !.buf = BufSlid(br), !.r = 0, !.w = br.w - br.r, !.rerr = "EOF"]
    ELSE BufFilled(br, SrcGot(br, defaultBufSize - (br.w - br.r)))

\* b.readErr()
ReadErrTaken(br) == [br EXCEPT !.rerr = "nil"]

\* b.Peek(n), 0 < n <= len(b.buf): the slice b.buf[lo:hi] and the error
RECURSIVE BufPeek(_, _)
BufPeek(br, n) ==
    IF br.w - br.r < n /\ br.w - br.r < defaultBufSize /\ br.rerr = "nil"
    THEN BufPeek(BufFill(br), n)
    ELSE IF br.w - br.r < n
    THEN [br |-> ReadErrTaken([br EXCEPT !.last = -1]), lo |-> br.r, hi |-> br.w,
          err |-> IF br.rerr # "nil" THEN br.rerr ELSE "ErrBufferFull"]
    ELSE [br |-> [br EXCEPT !.last = -1], lo |-> br.r, hi |-> br.r + n, err |-> "nil"]

\* the loop of b.Discard(n), remain bytes being still to skip
RECURSIVE BufDiscardLoop(_, _)
BufDiscardSkipped(br, remain) ==
    IF remain = 0 THEN [br |-> br, err |-> "nil"]
    ELSE IF br.rerr # "nil" THEN [br |-> ReadErrTaken(br), err |-> br.rerr]
    ELSE BufDiscardLoop(br, remain)

BufDiscardSkip(br, remain) ==
    BufDiscardSkipped([br EXCEPT !.r = br.r + Min2(br.w - br.r, remain)],
                      remain - Min2(br.w - br.r, remain))

BufDiscardLoop(br, remain) ==
    BufDiscardSkip(IF br.w = br.r THEN BufFill(br) ELSE br, remain)

\* b.Discard(n)
BufDiscard(br, n) ==
    IF n = 0 THEN [br |-> br, err |-> "nil"]
    ELSE BufDiscardLoop([br EXCEPT !.last = -1], n)

\* b.ReadByte()
RECURSIVE BufReadByte(_)
BufReadByte(br) ==
    IF br.r = br.w
    THEN IF br.rerr # "nil" THEN [br |-> ReadErrTaken(br), c |-> 0, err |-> br.rerr]
         ELSE BufReadByte(BufFill(br))
    ELSE [br |-> [br EXCEPT !.r = br.r + 1, !.last = br.buf[br.r + 1]],
          c |-> br.buf[br.r + 1], err |-> "nil"]

\* b.UnreadByte()
BufUnreadByte(br) ==
    IF br.last < 0 \/ (br.r = 0 /\ br.w > 0) THEN [br |-> br, err |-> "ErrInvalidUnreadByte"]
    ELSE IF br.r > 0
    THEN [br |-> [br EXCEPT !.r = br.r - 1, !.buf = BufPut(br.buf, br.r - 1, <<br.last>>),
                            !.last = -1],
          err |-> "nil"]
    ELSE [br |-> [br EXCEPT !.w = 1, !.buf = BufPut(br.buf, 0, <<br.last>>), !.last = -1],
          err |-> "nil"]

\* the place of the first delimiter in data from place k on, 0 when there is none
IndexByte(data, delimiter, k) ==
    IF \E i \in k..Len(data) : data[i] = delimiter
    THEN CHOOSE i \in k..Len(data) :
            data[i] = delimiter /\ \A j \in k..(i - 1) : data[j] # delimiter
    ELSE 0

\* the end of b.ReadSlice: b.lastByte is the last byte of the line
ReadSliceLine(br, line, err) ==
    [br |-> IF line # <<>> THEN [br EXCEPT !.last = line[Len(line)]] ELSE br,
     line |-> line, err |-> err]

\* b.ReadSlice(delim), the buffer being searched from b.r + s on
RECURSIVE BufReadSlice(_, _, _)
BufReadSlice(br, delim, s) ==
    IF IndexByte(SubSeq(br.buf, 1, br.w), delim, br.r + s + 1) > 0
    THEN ReadSliceLine([br EXCEPT !.r = IndexByte(SubSeq(br.buf, 1, br.w), delim,
                                                  br.r + s + 1)],
                       SubSeq(br.buf, br.r + 1,
                              IndexByte(SubSeq(br.buf, 1, br.w), delim, br.r + s + 1)),
                       "nil")
    ELSE IF br.rerr # "nil"
    THEN ReadSliceLine(ReadErrTaken([br EXCEPT !.r = br.w]),
                       SubSeq(br.buf, br.r + 1, br.w), br.rerr)
    ELSE IF br.w - br.r >= defaultBufSize
    THEN ReadSliceLine([br EXCEPT !.r = br.w], SubSeq(br.buf, 1, defaultBufSize),
                       "ErrBufferFull")
    ELSE BufReadSlice(BufFill(br), delim, br.w - br.r)

\* b.ReadBytes(delim): the lines of ReadSlice that filled the buffer, then the last
\* one, copied into a new slice
RECURSIVE BufReadBytesAfter(_, _, _)
BufReadBytesNext(x, delim, full) ==
    IF x.err = "ErrBufferFull" THEN BufReadBytesAfter(x.br, delim, full \o x.line)
    ELSE [br |-> x.br, read |-> full \o x.line, err |-> x.err]

BufReadBytesAfter(br, delim, full) == BufReadBytesNext(BufReadSlice(br, delim, 0), delim, full)

BufReadBytes(br, delim) == BufReadBytesAfter(br, delim, <<>>)

\* b.Read(p), len(p) = n >= len(b.buf), the buffer being empty: the source
\* delivered got bytes into p
BufReadDirect(br, n, got) ==
    [br |-> [SrcRead(br, n, got) EXCEPT !.last = br.src[got]],
     p |-> SubSeq(br.src, 1, got), err |-> "nil"]

\* b.Read(p), len(p) = n < len(b.buf), the buffer being empty: the source
\* delivered got bytes into the buffer, of which p gets the first n
BufReadFilled(br, n, got) ==
    [br |-> [SrcRead(br, defaultBufSize, got)
                EXCEPT !.buf = BufPut(br.buf, 0, SubSeq(br.src, 1, got)),
                       !.r = Min2(n, got),
                       !.w = got,
                       !.last = br.src[Min2(n, got)]],
     p |-> SubSeq(br.src, 1, Min2(n, got)), err |-> "nil"]

\* b.Read(p), len(p) = n > 0, the buffer being empty and b.err nil: a Read of the
\* source into p when p is no smaller than the buffer, else one into the buffer
BufReadEmpty(br, n) ==
    IF br.src = <<>>
    THEN [br |-> IF n >= defaultBufSize THEN br ELSE [br EXCEPT !.r = 0, !.w = 0],
          p |-> <<>>, err |-> "EOF"]
    ELSE IF n >= defaultBufSize THEN BufReadDirect(br, n, SrcGot(br, n))
    ELSE BufReadFilled(br, n, SrcGot(br, defaultBufSize))

\* b.Read(p), len(p) = n > 0
BufRead(br, n) ==
    IF br.r = br.w
    THEN IF br.rerr # "nil" THEN [br |-> ReadErrTaken(br), p |-> <<>>, err |-> br.rerr]
         ELSE BufReadEmpty(br, n)
    ELSE [br |-> [br EXCEPT !.r = br.r + Min2(n, br.w - br.r),
                            !.last = br.buf[br.r + Min2(n, br.w - br.r)]],
          p |-> SubSeq(br.buf, br.r + 1, br.r + Min2(n, br.w - br.r)), err |-> "nil"]

\* br.ReadByte(): the reader afterwards and the byte
BrReadByteOf(x) == [br |-> [x.br EXCEPT !.err = x.err], b |-> x.c]

BrReadByte(br) ==
    IF br.err # "nil" THEN [br |-> br, b |-> 0]
    ELSE BrReadByteOf(BufReadByte(br))

\* br.next(n) after the Peek: b holds the bytes of the slice at that moment
BrNextDiscarded(p, d) ==
    IF d.err # "nil"
    THEN [br |-> [d.br EXCEPT !.err = d.err], b |-> <<>>, lo |-> 0, hi |-> 0, ok |-> FALSE]
    ELSE [br |-> d.br, b |-> SubSeq(p.br.buf, p.lo + 1, p.hi), lo |-> p.lo, hi |-> p.hi,
          ok |-> TRUE]

BrNextPeeked(p, n) ==
    IF p.err # "nil"
    THEN [br |-> [p.br EXCEPT !.err = p.err], b |-> <<>>, lo |-> 0, hi |-> 0, ok |-> FALSE]
    ELSE BrNextDiscarded(p, BufDiscard(p.br, n))

\* br.Next(n): the reader afterwards and the slice, nil being ok FALSE
BrNext(br, n) ==
    IF br.err # "nil" THEN [br |-> br, b |-> <<>>, lo |-> 0, hi |-> 0, ok |-> FALSE]
    ELSE IF n = 0 THEN [br |-> br, b |-> <<>>, lo |-> 0, hi |-> 0, ok |-> FALSE]
    ELSE BrNextPeeked(BufPeek(br, n), n)

\* the bytes a slice that br.Next returned holds once the reader has become br
SliceBytes(br, slice) ==
    IF slice.ok THEN SubSeq(br.buf, slice.lo + 1, slice.hi) ELSE <<>>

\* br.Discard(n)
BrDiscardOf(x) == [x.br EXCEPT !.err = x.err]

BrDiscard(br, n) ==
    IF br.err # "nil" THEN br
    ELSE BrDiscardOf(BufDiscard(br, n))

\* br.readTillDelimiter after read, err := br.buf.ReadBytes(delimiter)
readTillDelimiterUnread(x, u) ==
    [br |-> u.br, read |-> SubSeq(x.read, 1, Len(x.read) - 1), err |-> u.err]

readTillDelimiterRead(x) ==
    IF x.err # "nil" \/ x.read = <<>> THEN x
    ELSE readTillDelimiterUnread(x, BufUnreadByte(x.br))

\* br.readTillDelimiter(delimiter): the reader afterwards, the bytes returned and
\* the error
readTillDelimiter(br, delimiter) == readTillDelimiterRead(BufReadBytes(br, delimiter))

\* the loop of br.readTillDelimiters for two and more delimiters
RECURSIVE readTillDelimitersLoop(_, _, _)
readTillDelimitersByte(c, delimiters, result) ==
    IF c.err # "nil" THEN [br |-> c.br, read |-> result, err |-> c.err]
    ELSE readTillDelimitersLoop(c.br, delimiters, Append(result, c.c))

readTillDelimitersPeeked(p, delimiters, result) ==
    IF p.err # "nil" THEN [br |-> p.br, read |-> result, err |-> p.err]
    ELSE IF SubSeq(p.br.buf, p.lo + 1, p.hi) = delimiters
    THEN [br |-> p.br, read |-> result, err |-> "nil"]
    ELSE readTillDelimitersByte(BufReadByte(p.br), delimiters, result)

readTillDelimitersRead(x, delimiters, result) ==
    IF x.err # "nil" THEN [br |-> x.br, read |-> result, err |-> x.err]
    ELSE readTillDelimitersPeeked(BufPeek(x.br, Len(delimiters)), delimiters,
                                  result \o x.read)

readTillDelimitersLoop(br, delimiters, result) ==
    readTillDelimitersRead(readTillDelimiter(br, delimiters[1]), delimiters, result)

\* br.readTillDelimiters(delimiters)
readTillDelimiters(br, delimiters) ==
    IF Len(delimiters) = 0 THEN [br |-> br, read |-> <<>>, err |-> "nil"]
    ELSE IF Len(delimiters) = 1 THEN readTillDelimiter(br, delimiters[1])
    ELSE readTillDelimitersLoop(br, delimiters, <<>>)

\* the end of br.ReadText: the byte appended for UTF-16, then the Discard
ReadTextEnd(br, text, encoding) ==
    IF encoding = EncodingUTF16Key /\ text # bom
    THEN [br |-> BrDiscard(BrReadByte(br).br, Len(TerminationBytes(encoding))),
          text |-> Append(text, BrReadByte(br).b)]
    ELSE [br |-> BrDiscard(br, Len(TerminationBytes(encoding))), text |-> text]

\* br.ReadText(encoding) after text, br.err = br.readTillDelimiters(delimiters)
ReadTextOf(x, encoding) == ReadTextEnd([x.br EXCEPT !.err = x.err], x.read, encoding)

\* br.ReadText(encoding): the reader afterwards and the text
BrReadText(br, encoding) ==
    IF br.err # "nil" THEN [br |-> br, text |-> <<>>]
    ELSE ReadTextOf(readTillDelimiters(br, TerminationBytes(encoding)), encoding)

\* br.Read(p), len(p) = n > 0
BrRead(br, n) ==
    IF br.err # "nil" THEN [br |-> br, p |-> <<>>, err |-> br.err]
    ELSE BufRead(br, n)

\* bytes.MinRead
MinRead == 512

\* the capacity of a bytes.Buffer of capacity c holding m bytes once grow(MinRead)
\* has made room: the slice is kept when it has the room, and else growSlice
\* allocates one of len + MinRead bytes and no less than twice the capacity
GrownCap(c, m) == IF MinRead <= c - m THEN c ELSE Max2(m + MinRead, 2 * c)

\* buf.ReadFrom(br), buf a bytes.Buffer of capacity c that holds out: the reader
\* afterwards, the bytes buf holds and the error
RECURSIVE BufferReadFrom(_, _, _)
BufferReadFromRead(x, out, c) ==
    IF x.err = "EOF" THEN [br |-> x.br, out |-> out \o x.p, err |-> "nil"]
    ELSE IF x.err # "nil" THEN [br |-> x.br, out |-> out \o x.p, err |-> x.err]
    ELSE BufferReadFrom(x.br, out \o x.p, c)

BufferReadFrom(br, out, c) ==
    BufferReadFromRead(BrRead(br, GrownCap(c, Len(out)) - Len(out)), out,
                       GrownCap(c, Len(out)))

\* br.ReadAll(): the reader afterwards and the bytes, nil being <<>>
BrReadAllOf(x) ==
    IF x.err # "nil" /\ x.br.err = "nil"
    THEN [br |-> [x.br EXCEPT !.err = x.err], b |-> <<>>]
    ELSE [br |-> x.br, b |-> x.out]

BrReadAll(br) ==
    IF br.err # "nil" THEN [br |-> br, b |-> <<>>]
    ELSE BrReadAllOf(BufferReadFrom(br, <<>>, MinRead))

(***************************************************************************)
(* parseSynchronisedLyricsFrame: synchronised_lyrics_frame.go.  A parsed   *)
(* frame holds its strings as bytes and a timestamp as the four big-endian *)
(* bytes of the uint32; left is how many bytes of the body br has not      *)
(* taken from its source when the parser returns.                          *)
(***************************************************************************)
NoFrame ==
    [Encoding |-> 0, Language |-> <<>>, TimestampFormat |-> 0, ContentType |-> 0,
     ContentDescriptor |-> <<>>, SynchronizedTexts |-> <<>>]

\* one round of the loop after textLyric, err := br.readTillDelimiters(...) gave x
\* with no error: the termination bytes skipped and the timestamp read
SyltEntryRead(x, encoding) ==
    BrNext(BrNext(x.br, Len(TerminationBytes(encoding))).br, 4)

\* the loop of parseSynchronisedLyricsFrame: the entries and the reader at the
\* end, or a panic when binary.BigEndian.Uint32 is given fewer than 4 bytes
RECURSIVE SyltEntries(_, _, _)
SyltEntryTaken(x, n, encoding, s) ==
    IF ~n.ok THEN [panic |-> TRUE, s |-> s, br |-> n.br]
    ELSE SyltEntries(n.br, encoding,
                     Append(s, [Text |-> decodeText(x.read, encoding), Timestamp |-> n.b]))

SyltEntriesRead(x, encoding, s) ==
    IF x.err # "nil" THEN [panic |-> FALSE, s |-> s, br |-> x.br]
    ELSE SyltEntryTaken(x, SyltEntryRead(x, encoding), encoding, s)

SyltEntries(br, encoding, s) ==
    SyltEntriesRead(readTillDelimiters(br, TerminationBytes(encoding)), encoding, s)

\* the frame parseSynchronisedLyricsFrame builds after the loop: string(language)
\* copies the bytes the slice holds by then
SyltFrame(encoding, language, timestampFormat, contentType, d, e) ==
    [panic |-> e.panic, err |-> "nil", left |-> Len(e.br.src),
     frame |-> [Encoding |-> encoding, Language |-> SliceBytes(e.br, language),
                TimestampFormat |-> timestampFormat, ContentType |-> contentType,
                ContentDescriptor |-> decodeText(d.text, encoding),
                SynchronizedTexts |-> e.s]]

\* parseSynchronisedLyricsFrame once the fields before the entries are read;
\* language is the slice br.Next(3) returned
SyltParsed(encoding, language, timestampFormat, contentType, d) ==
    IF d.br.err # "nil"
    THEN [panic |-> FALSE, err |-> d.br.err, left |-> Len(d.br.src), frame |-> NoFrame]
    ELSE SyltFrame(encoding, language, timestampFormat, contentType, d,
                   SyltEntries(d.br, encoding, <<>>))

\* the reads of timestampFormat, contentType and contentDescriptor
SyltAfterLanguage(encoding, l, t) ==
    SyltParsed(encoding, l, t.b, BrReadByte(t.br).b,
               BrReadText(BrReadByte(t.br).br, encoding))

SyltAfterEncoding(e) ==
    SyltAfterLanguage(getEncoding(e.b), BrNext(e.br, 3), BrReadByte(BrNext(e.br, 3).br))

\* parseSynchronisedLyricsFrame(br, version), br reading data
parseSynchronisedLyricsFrame(data) == SyltAfterEncoding(BrReadByte(NewBr(data)))

(***************************************************************************)
(* Frame ids are Go strings of ASCII letters and digits: sequences of      *)
(* their byte values.                                                      *)
(***************************************************************************)
UserDefinedTextFrameID == <<84, 88, 88, 88>>

MCDI == <<77, 67, 68, 73>>

ETCO == <<69, 84, 67, 79>>

SYTC == <<83, 89, 84, 67>>

RVRB == <<82, 86, 82, 66>>

MLLT == <<77, 76, 76, 84>>

PCNT == <<80, 67, 78, 84>>

RBUF == <<82, 66, 85, 70>>

POSS == <<80, 79, 83, 83>>

OWNE == <<79, 87, 78, 69>>

SEEK == <<83, 69, 69, 75>>

ASPI == <<65, 83, 80, 73>>

IPLS == <<73, 80, 76, 83>>

RVAD == <<82, 86, 65, 68>>

COMM == <<67, 79, 77, 77>>

UFID == <<85, 70, 73, 68>>

APIC == <<65, 80, 73, 67>>

\* strings.HasPrefix(id, "T")
HasPrefixT(id) == Len(id) >= 1 /\ id[1] = 84

\* The first case of the switch has no statements and Go does not fall
\* through: control leaves the switch and reaches the final return.
mustFrameBeInSequence(id) ==
    IF id # UserDefinedTextFrameID /\ HasPrefixT(id) THEN FALSE
    ELSE IF id \in {MCDI, ETCO, SYTC, RVRB, MLLT, PCNT, RBUF, POSS, OWNE, SEEK, ASPI}
         THEN TRUE
    ELSE IF id \in {IPLS, RVAD} THEN FALSE
    ELSE TRUE

(***************************************************************************)
(* sequence (part_000).  indexOfFrame calls UniqueIdentifier on both       *)
(* frames in every iteration; rnd[i] holds the two numbers rand.Int()      *)
(* yields in iteration i, should either frame be an UnknownFrame.          *)
(***************************************************************************)
RECURSIVE IndexFrom(_, _, _, _)
IndexFrom(f, fs, rnd, i) ==
    IF i > Len(fs) THEN -1
    ELSE IF UniqueIdentifier(f, rnd[i][1]) = UniqueIdentifier(fs[i], rnd[i][2])
         THEN i - 1
         ELSE IndexFrom(f, fs, rnd, i + 1)

\* indexOfFrame that finds no frame
indexOfFrameNotFound(f, fs, rnd) == -1

\* the slice index of the first frame found equal by key, or -1
indexOfFrame(f, fs, rnd) == IndexFrom(f, fs, rnd, 1)

\* sequence.AddFrame without the search: f is always appended
sequenceAddFrameAppend(frames, f, rnd) == Append(frames, f)

\* sequence.AddFrame(f), on the slice s.frames
sequenceAddFrame(frames, f, rnd) ==
    LET i == indexOfFrame(f, frames, rnd) IN
    IF i = -1 THEN Append(frames, f)
    ELSE [frames EXCEPT ![i + 1] = f]

\* the numbers rand.Int() may yield
RandInts == {3, 11}

\* the numbers one UniqueIdentifier call on f may draw (0: it draws none)
Draws(f) == IF f.kind = "UnknownFrame" THEN RandInts ELSE {0}

RECURSIVE RndFrom(_, _)
RndFrom(f, fs) ==
    IF fs = <<>> THEN {<<>>}
    ELSE {<<d>> \o rest : d \in Draws(f) \X Draws(Head(fs)), rest \in RndFrom(f, Tail(fs))}

\* the draws one indexOfFrame(f, fs) can make
RndChoices(f, fs) == RndFrom(f, fs)

(***************************************************************************)
(* Tag (part_004): frames maps an id to its frame, sequences maps an id    *)
(* to the frames of its sequence; both are functions on the ids present.   *)
(***************************************************************************)
EmptyMap == [x \in {} |-> <<>>]

MapDelete(m, k) == [x \in (DOMAIN m) \ {k} |-> m[x]]

\* a Framer that is nil
NilFrame == [kind |-> "nil"]

\* tag.AddFrame(id, f) that keeps the frame an id of the frames map has
TagAddFrameKeepFirst(tag, id, f, rnd) ==
    IF id = <<>> \/ f.kind = "nil" \/ id \in DOMAIN tag.frames THEN tag
    ELSE IF mustFrameBeInSequence(id)
    THEN LET sequence == IF id \in DOMAIN tag.sequences THEN tag.sequences[id] ELSE <<>>
         IN  [tag EXCEPT !.sequences = (id :> sequenceAddFrame(sequence, f, rnd)) @@ @]
    ELSE [tag EXCEPT !.frames = (id :> f) @@ @]

\* tag.AddFrame(id, f)
TagAddFrame(tag, id, f, rnd) ==
    IF id = <<>> \/ f.kind = "nil" THEN tag
    ELSE IF mustFrameBeInSequence(id)
    THEN LET sequence == IF id \in DOMAIN tag.sequences THEN tag.sequences[id] ELSE <<>>
         IN  [tag EXCEPT !.sequences = (id :> sequenceAddFrame(sequence, f, rnd)) @@ @]
    ELSE [tag EXCEPT !.frames = (id :> f) @@ @]

\* tag.DeleteFrames(id) that empties the sequence and leaves it in the map
TagDeleteFramesKeepSequence(tag, id) ==
    [tag EXCEPT !.frames = MapDelete(@, id),
                !.sequences = [x \in DOMAIN @ |-> IF x = id THEN <<>> ELSE @[x]]]

\* tag.DeleteFrames(id)
TagDeleteFrames(tag, id) ==
    [tag EXCEPT !.frames = MapDelete(@, id), !.sequences = MapDelete(@, id)]

\* tag.DeleteAllFrames()
TagDeleteAllFrames(tag) == [tag EXCEPT !.frames = EmptyMap, !.sequences = EmptyMap]

\* tag.GetFrames(id); nil is the empty slice
TagGetFrames(tag, id) ==
    IF id \in DOMAIN tag.frames THEN <<tag.frames[id]>>
    ELSE IF id \in DOMAIN tag.sequences THEN tag.sequences[id]
    ELSE <<>>

\* tag.GetLastFrame(id); nil is NilFrame
TagGetLastFrame(tag, id) ==
    IF id \in DOMAIN tag.frames THEN tag.frames[id]
    ELSE IF Len(TagGetFrames(tag, id)) = 0 THEN NilFrame
    ELSE TagGetFrames(tag, id)[Len(TagGetFrames(tag, id))]

\* every stored frame, as <<id, place in its sequence (0: not in one), frame>>
TagEntries(tag) ==
    {<<id, 0, tag.frames[id]>> : id \in DOMAIN tag.frames}
    \cup UNION {{<<id, i, tag.sequences[id][i]>> : i \in 1..Len(tag.sequences[id])} :
                   id \in DOMAIN tag.sequences}

\* the frames of the sequences stored under the ids of S, counted
RECURSIVE SumCounts(_, _)
SumCounts(sequences, S) ==
    IF S = {} THEN 0
    ELSE LET id == CHOOSE x \in S : TRUE
         IN  Len(sequences[id]) + SumCounts(sequences, S \ {id})

\* tag.Count(): n := len(tag.frames), then n += s.Count() for every sequence
TagCount(tag) == Cardinality(DOMAIN tag.frames) + SumCounts(tag.sequences, DOMAIN tag.sequences)

\* tag.HasFrames(): len(tag.frames) > 0 || len(tag.sequences) > 0
TagHasFrames(tag) == DOMAIN tag.frames # {} \/ DOMAIN tag.sequences # {}

\* tag.AllFrames(): the entries of tag.frames, then those of tag.sequences, which
\* take the place of an entry with the same id
TagAllFrames(tag) ==
    [id \in DOMAIN tag.frames \cup DOMAIN tag.sequences |->
        IF id \in DOMAIN tag.sequences THEN tag.sequences[id] ELSE <<tag.frames[id]>>]


\* tag.Size() panics when a frame's Size() does
TagSizePanics(tag) == \E e \in TagEntries(tag) : SizePanics(e[3])

RECURSIVE SumFrameCost(_)
SumFrameCost(S) ==
    IF S = {} THEN 0
    ELSE LET e == CHOOSE y \in S : TRUE
         IN  frameHeaderSize + Size(e[3]) + SumFrameCost(S \ {e})

\* tag.Size(), when it does not panic
TagSize(tag) ==
    IF ~TagHasFrames(tag) THEN 0
    ELSE tagHeaderSize + SumFrameCost(TagEntries(tag))

\* tag.SetVersion(version)
TagSetVersion(tag, version) ==
    IF version < 3 \/ version > 4 THEN tag
    ELSE [tag EXCEPT !.version = version,
                     !.defaultEncoding = IF version = 4 THEN EncodingUTF8Key
                                         ELSE EncodingISOKey]

\* tag.SetDefaultEncoding(encoding)
TagSetDefaultEncoding(tag, encoding) == [tag EXCEPT !.defaultEncoding = encoding]

(***************************************************************************)
(* Tag.WriteTo.  Go ranges over a map in an order of its choosing: order   *)
(* is the order this call visits the stored frames in, singular frames     *)
(* first.  The writer's buffer holds what was written since the last       *)
(* Flush.                                                                  *)
(***************************************************************************)
id3Identifier == <<73, 68, 51>>

Perms(S) == {p \in [1..Cardinality(S) -> S] : \A i, j \in 1..Cardinality(S) : p[i] = p[j] => i = j}

\* the orders iterateOverAllFrames can visit the frames in
IterationOrders(tag) ==
    {Flatten([i \in 1..Len(p) |-> <<<<p[i], tag.frames[p[i]]>>>>])
       \o Flatten([i \in 1..Len(q) |->
                     [j \in 1..Len(tag.sequences[q[i]]) |-> <<q[i], tag.sequences[q[i]][j]>>]]) :
       p \in Perms(DOMAIN tag.frames), q \in Perms(DOMAIN tag.sequences)}

\* writeTagHeader writing the size 8 bits to the byte
writeTagHeaderOpsUnsafe(framesSize, version) ==
    <<WriteOp(id3Identifier), WriteByteOp(version), WriteByteOp(0), WriteByteOp(0),
      WriteBytesSizeOp(framesSize, FALSE)>>

\* writeTagHeader(bw, framesSize, version): it returns nil once "ID3" is written
writeTagHeaderOps(framesSize, version) ==
    <<WriteOp(id3Identifier), WriteByteOp(version), WriteByteOp(0), WriteByteOp(0),
      WriteBytesSizeOp(framesSize, TRUE)>>

\* writeFrame, after frame.WriteTo(bw) returned w
writeFrameWritten(w) == [bw |-> w.bw, err |-> w.err]

\* writeFrame, after writeFrameHeader returned h
writeFrameBody(frame, h) ==
    IF h.err # "nil" THEN [bw |-> h.bw, err |-> h.err]
    ELSE writeFrameWritten(WriteTo(frame, h.bw))

\* writeFrame(bw, id, frame, synchSafe)
writeFrame(bw, id, frame, synchSafe) ==
    writeFrameBody(frame,
        RunOps(bw, writeFrameHeaderOps(id, truncateIntToUint(Size(frame)), synchSafe)))

RECURSIVE writeFrames(_, _, _)
\* iterateOverAllFrames, after the callback returned r for one frame
writeFramesNext(r, rest, synchSafe) ==
    IF r.err # "nil" THEN r
    ELSE writeFrames(r.bw, rest, synchSafe)

\* tag.iterateOverAllFrames(writeFrame), visiting the frames in this order
writeFrames(bw, order, synchSafe) ==
    IF order = <<>> THEN [bw |-> bw, err |-> "nil"]
    ELSE writeFramesNext(writeFrame(bw, Head(order)[1], Head(order)[2], synchSafe),
                         Tail(order), synchSafe)

\* what Tag.WriteTo returns after the frames are written: bw.Written() and the
\* error of the frames, or that of bw.Flush()
TagWriteToResult(r) ==
    [panic |-> FALSE,
     out |-> Received(BwFlush(r.bw)),
     n |-> r.bw.written,
     err |-> IF r.err # "nil" THEN r.err ELSE r.bw.err]

\* Tag.WriteTo, after writeTagHeader returned h
TagWriteToFrames(tag, order, h) ==
    IF h.err # "nil"
    THEN [panic |-> FALSE, out |-> Received(BwFlush(h.bw)), n |-> h.bw.written, err |-> h.err]
    ELSE TagWriteToResult(writeFrames(h.bw, order, tag.version = 4))

\* tag.WriteTo(w), w accepting every byte: whether it panics, the bytes w has
\* received, the count and the error returned
TagWriteTo(tag, order) ==
    IF TagSizePanics(tag) THEN [panic |-> TRUE, out |-> <<>>, n |-> 0, err |-> "nil"]
    ELSE IF TagSize(tag) - tagHeaderSize <= 0
    THEN [panic |-> FALSE, out |-> <<>>, n |-> 0, err |-> "nil"]
    ELSE TagWriteToFrames(tag, order,
            RunOps(NewBw, writeTagHeaderOps(TagSize(tag) - tagHeaderSize, tag.version)))

(***************************************************************************)
(* Tag.Save.  A file is the sequence of its bytes; a path is a record      *)
(* [exists, data].  Every file-system call may fail; what a failed write   *)
(* leaves behind is a prefix of what it was given.                         *)
(***************************************************************************)
Absent == [exists |-> FALSE, data |-> <<>>]

\* file.Write(p) at offset pos of a file that is not truncated
OverwriteAt(data, pos, p) ==
    SubSeq(data, 1, pos) \o p \o SubSeq(data, pos + Len(p) + 1, Len(data))

\* os.OpenFile(name, os.O_RDWR|os.O_CREATE, mode): an existing file keeps its bytes
OpenFileCreate(temp) ==
    IF temp.exists THEN temp ELSE [exists |-> TRUE, data |-> <<>>]

\* originalFile.Seek(tag.originalSize, io.SeekStart), then everything up to EOF
Payload(file, originalSize) ==
    IF originalSize >= Len(file) THEN <<>> ELSE SubSeq(file, originalSize + 1, Len(file))

\* how much of n bytes a failed write has put down
PartialLens(n) == {0} \cup {k \in {n - 1} : k > 0}

\* the deferred func of Save: os.Remove(newFile.Name()), its error dropped
deferredRemove(temp, tempfileShouldBeRemoved, removed) ==
    IF tempfileShouldBeRemoved /\ removed THEN Absent ELSE temp

\* one Save call: what it was given, how far it came and what it returned
NewCall(file, temp, originalSize) ==
    [ret |-> "pending", failedAt |-> "none", file0 |-> file, temp0 |-> temp,
     size0 |-> originalSize, tagOut |-> <<>>, n |-> 0, tagDone |-> FALSE,
     copyDone |-> FALSE, closed |-> "no", remove |-> FALSE, removeTried |-> FALSE,
     removed |-> FALSE, renameTried |-> FALSE]

NoSave == [NewCall(<<>>, Absent, 0) EXCEPT !.ret = "none"]

\* return err from the step named step
Failed(call, step, err) == [call EXCEPT !.ret = err, !.failedAt = step]

(***************************************************************************)
(* parse: the tag header, then the frames.  A reader is a byte sequence    *)
(* and a position; as bytes.Reader and os.File do, Read(p) delivers        *)
(* min(len(p), rest) bytes, and io.EOF only when nothing is left.  A       *)
(* reader may also answer 0 bytes and no error when nothing is left, which *)
(* io.Reader allows: the frame scan is run on such readers too.            *)
(***************************************************************************)
\* the size of the pooled slice buf of parseFrames
defaultBufferSize == 32768

\* the bytes a Read into n bytes yields at position pos
ReadAt(src, pos, n) ==
    SubSeq(src, pos + 1, IF pos + n < Len(src) THEN pos + n ELSE Len(src))

\* p after a Read put data at its start
ReadInto(p, data) == data \o SubSeq(p, Len(data) + 1, Len(p))

HeaderOf(version, size, err) == [version |-> version, size |-> size, err |-> err]

\* the end of parseHeader: header.FramesSize from parseSize(data[6:], true)
parseHeaderSizeLenient(data, r) ==
    IF r.err # "nil" THEN HeaderOf(data[4], 0, "nil") ELSE HeaderOf(data[4], ToNat(r.size), "nil")

parseHeaderSize(data, r) ==
    IF r.err # "nil" THEN HeaderOf(data[4], 0, r.err) ELSE HeaderOf(data[4], ToNat(r.size), "nil")

\* parseHeader after the Read, with the check of the number of bytes read left out
parseHeaderOfAnyLength(data, n) ==
    IF SubSeq(data, 1, 3) # id3Identifier THEN HeaderOf(0, 0, "ErrNoTag")
    ELSE parseHeaderSize(data, parseSize(SubSeq(data, 7, tagHeaderSize), TRUE))

\* parseHeader after n, err := rd.Read(data) has put n bytes into data
parseHeaderOf(data, n) ==
    IF n < tagHeaderSize THEN HeaderOf(0, 0, "ErrSmallHeaderSize")
    ELSE IF SubSeq(data, 1, 3) # id3Identifier THEN HeaderOf(0, 0, "ErrNoTag")
    ELSE parseHeaderSize(data, parseSize(SubSeq(data, 7, tagHeaderSize), TRUE))

\* parseHeader(rd), rd at the start of src; data := make([]byte, tagHeaderSize)
parseHeader(src) ==
    IF Len(src) = 0 THEN HeaderOf(0, 0, "EOF")
    ELSE parseHeaderOf(ReadInto([i \in 1..tagHeaderSize |-> 0], ReadAt(src, 0, tagHeaderSize)),
                       Len(ReadAt(src, 0, tagHeaderSize)))

\* tag.init(rd, originalSize, version), the frames and the encoding
TagInitFrames(tag, version) ==
    [TagDeleteAllFrames(tag) EXCEPT
        !.version = version,
        !.defaultEncoding = IF version = 4 THEN EncodingUTF8Key ELSE EncodingISOKey]

\* fmt.Errorf("error by parsing tag header: %w", err)
WrappedHeaderError(err) ==
    IF err = "ErrSmallHeaderSize" THEN "error by parsing tag header: ErrSmallHeaderSize"
    ELSE "error by parsing tag header: ErrInvalidSizeFormat"

\* parse(rd, opts) up to the frames: what it returns, or "frames" when it
\* goes on to parseFrames, and whether it called tag.init
parseOutcome(h, opts) ==
    IF h.err \in {"ErrNoTag", "EOF"} THEN [err |-> "nil", init |-> TRUE, size |-> 0, version |-> 4]
    ELSE IF h.err # "nil"
    THEN [err |-> WrappedHeaderError(h.err), init |-> FALSE, size |-> 0, version |-> 0]
    ELSE IF h.version < 3
    THEN [err |-> "ErrUnsupportedVersion", init |-> FALSE, size |-> 0, version |-> 0]
    ELSE [err |-> IF opts.Parse THEN "frames" ELSE "nil", init |-> TRUE,
          size |-> tagHeaderSize + h.size, version |-> h.version]

(***************************************************************************)
(* An int64 of the frame scan is kept in two parts, hi * 2^31 + lo with    *)
(* lo in 0 .. 2^31 - 1: a frame header that is not synch-safe holds sizes  *)
(* up to 2^32 - 1, and framesSize goes as far below zero.                  *)
(***************************************************************************)
\* 2^31 - 1
MaxLo == (Pow2(30) - 1) + Pow2(30)

\* int64(n)
Int64(n) == IF n >= 0 THEN [hi |-> 0, lo |-> n] ELSE [hi |-> -1, lo |-> (n + MaxLo) + 1]

\* the int64 that parseSize returns for four bytes, x being its bits
Int64OfBits(x) ==
    [hi |-> LET s[i \in 31..62] == IF i = 31 THEN 0 ELSE s[i - 1] + x[i] * Pow2(i - 32)
            IN  s[62],
     lo |-> ToNat(x)]

Int64Add(a, b) ==
    IF a.lo <= MaxLo - b.lo THEN [hi |-> a.hi + b.hi, lo |-> a.lo + b.lo]
    ELSE [hi |-> a.hi + b.hi + 1, lo |-> ((a.lo - MaxLo) - 1) + b.lo]

Int64Sub(a, b) ==
    IF a.lo >= b.lo THEN [hi |-> a.hi - b.hi, lo |-> a.lo - b.lo]
    ELSE [hi |-> a.hi - b.hi - 1, lo |-> ((a.lo - b.lo) + MaxLo) + 1]

\* a < b
Int64Less(a, b) == a.hi < b.hi \/ (a.hi = b.hi /\ a.lo < b.lo)

\* the int of an int64 between -2^31 and 2^31 - 1
ToInt(a) == IF a.hi = 0 THEN a.lo ELSE (a.lo - MaxLo) - 1

\* min(a, n), n an int that is not negative
AtMost(a, n) ==
    IF a.hi > 0 THEN n ELSE IF a.hi < 0 THEN ToInt(a) ELSE IF a.lo < n THEN a.lo ELSE n

\* framesSize -= frameHeaderSize + bodySize without the header's ten bytes
framesSizeAfterBody(framesSize, bodySize) == Int64Sub(framesSize, bodySize)

\* framesSize -= frameHeaderSize + bodySize
framesSizeAfter(framesSize, bodySize) ==
    Int64Sub(framesSize, Int64Add(Int64(frameHeaderSize), bodySize))

\* parseFrameHeader on the bytes fhBuf holds after the Read
parseFrameHeaderOf(fhBuf, r) ==
    IF r.err # "nil" THEN [err |-> r.err, id |-> <<>>, bodySize |-> Int64(0)]
    ELSE IF SubSeq(fhBuf, 1, 4) = <<0, 0, 0, 0>> \/ Int64OfBits(r.size) = Int64(0)
    THEN [err |-> "ErrBlankFrame", id |-> <<>>, bodySize |-> Int64(0)]
    ELSE [err |-> "nil", id |-> SubSeq(fhBuf, 1, 4), bodySize |-> Int64OfBits(r.size)]

parseFrameHeader(fhBuf, synchSafe) ==
    parseFrameHeaderOf(fhBuf, parseSize(SubSeq(fhBuf, 5, 8), synchSafe))
(***************************************************************************)
(* parseChapterFrame: chapter_frame.go, with the body parsers it calls.    *)
(* The reader br it is given is a bufio.Reader over a source that delivers *)
(* min(len(p), rest) bytes at a Read: data is all the source can deliver,  *)
(* c how many bytes br handed out, p how many it took from the source, and *)
(* err the sticky error of the bufferedReader.  The parser of a subframe   *)
(* reads through a bufio.Reader of its own over a limited reader over br,  *)
(* so what br takes from its source follows from the Reads that reader     *)
(* makes.  An Encoding is kept as its key, so the zero Encoding reads as   *)
(* key 0; a uint32 is the four bytes read.                                 *)
(***************************************************************************)
WXXX == <<87, 88, 88, 88>>

NewRd(data) == [data |-> data, c |-> 0, p |-> 0, err |-> "nil"]

\* br.Read(p), len(p) = n > 0: what is buffered, else a read of the source into p
\* when p is no smaller than the buffer, else one fill of the buffer
RdRead(rd, n) ==
    IF rd.err # "nil" THEN [rd |-> rd, b |-> <<>>, err |-> rd.err]
    ELSE IF rd.c < rd.p
    THEN [rd |-> [rd EXCEPT !.c = Min2(rd.c + n, rd.p)],
          b |-> SubSeq(rd.data, rd.c + 1, Min2(rd.c + n, rd.p)), err |-> "nil"]
    ELSE IF rd.c >= Len(rd.data) THEN [rd |-> rd, b |-> <<>>, err |-> "EOF"]
    ELSE IF n >= defaultBufSize
    THEN [rd |-> [rd EXCEPT !.c = Min2(rd.c + n, Len(rd.data)),
                            !.p = Min2(rd.c + n, Len(rd.data))],
          b |-> SubSeq(rd.data, rd.c + 1, Min2(rd.c + n, Len(rd.data))), err |-> "nil"]
    ELSE [rd |-> [rd EXCEPT !.c = Min2(rd.c + n, Len(rd.data)),
                            !.p = Min2(rd.c + defaultBufSize, Len(rd.data))],
          b |-> SubSeq(rd.data, rd.c + 1, Min2(rd.c + n, Len(rd.data))), err |-> "nil"]

\* io.ReadFull(br, bs), len(bs) = n, as binary.Read calls it: got is read so far
RECURSIVE ReadFull(_, _, _)
ReadFull(rd, n, got) ==
    IF Len(got) >= n THEN [rd |-> rd, b |-> got, err |-> "nil"]
    ELSE IF RdRead(rd, n - Len(got)).err # "nil"
    THEN [rd |-> rd, b |-> got,
          err |-> IF got # <<>> /\ RdRead(rd, n - Len(got)).err = "EOF"
                  THEN "ErrUnexpectedEOF" ELSE RdRead(rd, n - Len(got)).err]
    ELSE ReadFull(RdRead(rd, n - Len(got)).rd, n, got \o RdRead(rd, n - Len(got)).b)

\* what br has taken from the source once ReadBytes found the delimiter at k: the
\* buffer is filled up while the delimiter is not in it, and emptied when full
RECURSIVE ReadBytesPulled(_, _, _, _)
ReadBytesPulled(from, p, k, len) ==
    IF k <= p THEN p
    ELSE IF p - from >= defaultBufSize THEN ReadBytesPulled(p, p, k, len)
    ELSE ReadBytesPulled(from, Min2(from + defaultBufSize, len), k, len)

\* br.ReadText(EncodingISO): the text up to the first zero byte, which is discarded
RdReadText(rd) ==
    IF rd.err # "nil" THEN [rd |-> rd, text |-> <<>>]
    ELSE IF IndexByte(rd.data, 0, rd.c + 1) = 0
    THEN [rd |-> [rd EXCEPT !.c = Len(rd.data), !.p = Len(rd.data), !.err = "EOF"],
          text |-> SubSeq(rd.data, rd.c + 1, Len(rd.data))]
    ELSE [rd |-> [rd EXCEPT !.c = IndexByte(rd.data, 0, rd.c + 1),
                            !.p = ReadBytesPulled(rd.c, rd.p,
                                                  IndexByte(rd.data, 0, rd.c + 1),
                                                  Len(rd.data))],
          text |-> SubSeq(rd.data, rd.c + 1, IndexByte(rd.data, 0, rd.c + 1) - 1)]

\* the bytes getLimitedReader(br, n) delivers
LimitedBody(rd, n) == SubSeq(rd.data, rd.c + 1, Min2(rd.c + n, Len(rd.data)))

\* newBufferedReader(getLimitedReader(br, n)), br being rd
SubframeReader(rd, n) ==
    [NewBr(LimitedBody(rd, n)) EXCEPT !.up = [c |-> rd.c, p |-> rd.p, len |-> Len(rd.data)]]

\* br once the reader over its limited reader has left it as up
RdAfter(rd, up) == [rd EXCEPT !.c = up.c, !.p = up.p]

\* the N of getLimitedReader(br, header.BodySize) as far as br's data can use it up
BodyLimit(h, rd) == AtMost(h.bodySize, Len(rd.data))

\* bytes.Split(src, sep), part being the bytes before the next separator
RECURSIVE Split(_, _, _)
Split(src, sep, part) ==
    IF Len(src) < Len(sep) THEN <<part \o src>>
    ELSE IF SubSeq(src, 1, Len(sep)) = sep
    THEN <<part>> \o Split(SubSeq(src, Len(sep) + 1, Len(src)), sep, <<>>)
    ELSE Split(Tail(src), sep, Append(part, Head(src)))

\* decodeMulti(src, from)
decodeMultiOf(parts, from) == [i \in 1..Len(parts) |-> decodeText(parts[i], from)]

decodeMulti(src, from) ==
    decodeMultiOf(Split(TrimSuffix(src, TerminationBytes(from)), TerminationBytes(from), <<>>),
                  from)

ParsedTextFrame(encoding, values) ==
    [kind |-> "TextFrame", Encoding |-> encoding, Text |-> values[1], Multi |-> values]

\* parseTextFrame(br), br delivering body
parseTextFrame(body) ==
    IF body = <<>> THEN [err |-> "EOF", frame |-> NilFrame]
    ELSE [err |-> "nil",
          frame |-> ParsedTextFrame(getEncoding(body[1]),
                                    decodeMulti(Tail(body), getEncoding(body[1])))]

\* parseLinkFrame(br), br delivering body
parseLinkFrame(body) ==
    IF body = <<>> THEN [err |-> "EOF", frame |-> NilFrame]
    ELSE [err |-> "nil",
          frame |-> [kind |-> "LinkFrame", Encoding |-> getEncoding(body[1]),
                     URL |-> decodeText(Tail(body), getEncoding(body[1]))]]

\* parseTextFrame(br) and parseLinkFrame(br) once the encoding byte is read: br as
\* buf.ReadFrom(br) leaves it, buf being a buffer of capacity c from bbPool, or as
\* the ReadByte that failed left it
TextBodyRead(e, c) == IF e.br.err # "nil" THEN e.br ELSE BufferReadFrom(e.br, <<>>, c).br

\* parsePictureFrame after the reads: m the MIME type, d the description and a what
\* ReadAll gave; left is how many bytes of the body br has not taken from its
\* source, and up the reader below its source
PictureRead(encoding, m, pictureType, d, a) ==
    IF a.br.err # "nil"
    THEN [err |-> a.br.err, left |-> Len(a.br.src), up |-> a.br.up, frame |-> NilFrame]
    ELSE [err |-> "nil", left |-> Len(a.br.src), up |-> a.br.up,
          frame |-> [kind |-> "PictureFrame", Encoding |-> encoding, MimeType |-> m.text,
                     PictureType |-> pictureType,
                     Description |-> decodeText(d.text, encoding),
                     Picture |-> a.b]]

PictureParsed(encoding, m, pictureType, d) ==
    PictureRead(encoding, m, pictureType, d, BrReadAll(d.br))

PictureAfterMime(encoding, m) ==
    PictureParsed(encoding, m, BrReadByte(m.br).b, BrReadText(BrReadByte(m.br).br, encoding))

\* parsePictureFrame(br, version)
PictureFrom(br) ==
    PictureAfterMime(getEncoding(BrReadByte(br).b),
                     BrReadText(BrReadByte(br).br, EncodingISOKey))

\* parsePictureFrame(br, version), br delivering body
parsePictureFrame(body) == PictureFrom(NewBr(body))

\* the values of var title, description TextFrame; link LinkFrame; artwork PictureFrame
ZeroTextFrame == [kind |-> "TextFrame", Encoding |-> 0, Text |-> <<>>, Multi |-> <<>>]

ZeroLinkFrame == [kind |-> "LinkFrame", Encoding |-> 0, URL |-> <<>>]

ZeroPictureFrame ==
    [kind |-> "PictureFrame", Encoding |-> 0, MimeType |-> <<>>, PictureType |-> 0,
     Description |-> <<>>, Picture |-> <<>>]

\* the subframe loop starts with br as rd and the pooled slice as buf; replaced tells
\* that br was replaced by a reader over a limited reader now back in lrPool, and
\* caps holds the capacities of the buffers getBytesBuffer is going to hand out
ChapterStart(rd, buf, caps) ==
    [rd |-> rd, buf |-> buf, caps |-> caps, replaced |-> FALSE, afterPut |-> FALSE,
     headers |-> 0, err |-> "nil", Title |-> ZeroTextFrame, Description |-> ZeroTextFrame,
     Link |-> ZeroLinkFrame, Artwork |-> ZeroPictureFrame]

\* the capacity of the buffer getBytesBuffer hands out: bbPool makes a new buffer,
\* of capacity 0, when it holds none
NextCap(caps) == IF caps = <<>> THEN 0 ELSE Head(caps)

CapsAfter(caps) == IF caps = <<>> THEN <<>> ELSE Tail(caps)

\* the loop is left, err being what parseChapterFrame returns
ChapterReturn(st, err) == [st EXCEPT !.err = err]

\* the body parser of a recognised subframe id, on the bytes the limited reader has
SubframeParsed(id, body) ==
    IF id = TitleFrameID \/ id = SubtitleRefinementFrameID THEN parseTextFrame(body)
    ELSE IF id = WXXX THEN parseLinkFrame(body)
    ELSE parsePictureFrame(body)

\* the reader below the subframe's reader sub when the body parser returns; c is
\* the capacity of the buffer bbPool gives parseTextFrame and parseLinkFrame
SubframeUp(id, sub, c) ==
    IF id = APIC THEN PictureFrom(sub).up
    ELSE TextBodyRead(BrReadByte(sub), c).up

\* the loop once the body parser of a recognised subframe has returned: br is what
\* the parser's Reads made of it, and a buffer was taken from bbPool unless the
\* parser read a picture or found no byte to read
SubframeRead(st, id, body, up) ==
    [st EXCEPT !.rd = RdAfter(st.rd, up),
               !.caps = IF id = APIC \/ body = <<>> THEN st.caps ELSE CapsAfter(st.caps)]

\* the variable a subframe is assigned to; br is replaced for WXXX and APIC
SubframeAssigned(st, id, frame) ==
    IF id = TitleFrameID THEN [st EXCEPT !.Title = frame]
    ELSE IF id = SubtitleRefinementFrameID THEN [st EXCEPT !.Description = frame]
    ELSE IF id = WXXX THEN [st EXCEPT !.Link = frame, !.replaced = TRUE]
    ELSE [st EXCEPT !.Artwork = frame, !.replaced = TRUE]

RECURSIVE ChapterLoop(_, _)
\* one round of the loop once the body parser of the subframe id returned x
ChapterSubframeParsed(st, id, x, synchSafe) ==
    IF x.err # "nil" THEN ChapterReturn(st, x.err)
    ELSE ChapterLoop(SubframeAssigned(st, id, x.frame), synchSafe)

\* one round of the loop for a recognised subframe: body is what its limited reader
\* can deliver and sub the reader made over it
ChapterSubframeBody(st, id, body, sub, synchSafe) ==
    ChapterSubframeParsed(SubframeRead(st, id, body, SubframeUp(id, sub, NextCap(st.caps))),
                          id, SubframeParsed(id, body), synchSafe)

\* one round of the loop once parseFrameHeader returned h
ChapterSubframe(st, h, synchSafe) ==
    IF h.err # "nil" THEN ChapterReturn(st, "nil")
    ELSE IF h.id \in {TitleFrameID, SubtitleRefinementFrameID, WXXX, APIC}
    THEN ChapterSubframeBody(st, h.id, LimitedBody(st.rd, BodyLimit(h, st.rd)),
                             SubframeReader(st.rd, BodyLimit(h, st.rd)), synchSafe)
    ELSE ChapterLoop(st, synchSafe)

\* the loop after r, the Read of parseFrameHeader into fhBuf
ChapterHeaderRead(st, r, synchSafe) ==
    IF r.err # "nil" THEN ChapterReturn(st, "nil")
    ELSE ChapterSubframe([st EXCEPT !.rd = r.rd, !.buf = ReadInto(st.buf, r.b),
                                    !.headers = @ + 1],
                         parseFrameHeader(ReadInto(st.buf, r.b), synchSafe), synchSafe)

\* the loop of parseChapterFrame; a br that was replaced reads from its limited
\* reader, which putLimitedReader left with N = 0: io.EOF
ChapterLoop(st, synchSafe) ==
    IF st.replaced THEN ChapterReturn([st EXCEPT !.afterPut = TRUE], "nil")
    ELSE ChapterHeaderRead(st, RdRead(st.rd, frameHeaderSize), synchSafe)

\* the k binary.Read calls of startTime, endTime, startOffset, endOffset
RECURSIVE ReadUint32s(_, _, _)
ReadUint32s(rd, k, got) ==
    IF k = 0 THEN [rd |-> rd, vals |-> got, err |-> "nil"]
    ELSE IF ReadFull(rd, 4, <<>>).err # "nil"
    THEN [rd |-> ReadFull(rd, 4, <<>>).rd, vals |-> got, err |-> ReadFull(rd, 4, <<>>).err]
    ELSE ReadUint32s(ReadFull(rd, 4, <<>>).rd, k - 1, Append(got, ReadFull(rd, 4, <<>>).b))

\* parseChapterFrame once the loop has ended in st: what it returns, how many bytes
\* br handed out and took from its source, whether br was read after its limited
\* reader went back to the pool, and how many subframe headers were read
ChapterParsed(elementID, u, st) ==
    [err |-> st.err, read |-> st.rd.c, taken |-> st.rd.p, afterPut |-> st.afterPut, headers |-> st.headers,
     frame |-> IF st.err # "nil" THEN NilFrame
               ELSE [kind |-> "ChapterFrame", ElementID |-> elementID,
                     StartTime |-> u.vals[1], EndTime |-> u.vals[2],
                     StartOffset |-> u.vals[3], EndOffset |-> u.vals[4],
                     Title |-> st.Title, Description |-> st.Description,
                     Link |-> st.Link, Artwork |-> st.Artwork]]

ChapterAfterFields(elementID, u, version, buf, caps) ==
    IF u.err # "nil"
    THEN [err |-> u.err, read |-> u.rd.c, taken |-> u.rd.p, afterPut |-> FALSE, headers |-> 0, frame |-> NilFrame]
    ELSE ChapterParsed(elementID, u, ChapterLoop(ChapterStart(u.rd, buf, caps), version = 4))

\* parseChapterFrame(br, version), br a fresh reader over data, buf what the slice
\* getByteSlice hands out holds, and caps the capacities of the buffers that
\* getBytesBuffer hands out, one after the other
parseChapterFrame(data, version, buf, caps) ==
    ChapterAfterFields(RdReadText(NewRd(data)).text,
                       ReadUint32s(RdReadText(NewRd(data)).rd, 4, <<>>), version, buf, caps)
(***************************************************************************)
(* parseCommentFrame (comment_frame.go) and parseUnsynchronisedLyricsFrame *)
(* (unsynchronised_lyrics_frame.go), br delivering data; left is how many  *)
(* bytes of data br has not taken from its source when the parser returns. *)
(***************************************************************************)
\* the parsers after text.ReadFrom(br): string(language) copies the bytes the
\* slice holds by then
LanguageFrameRead(kind, encoding, language, d, t) ==
    IF t.err # "nil"
    THEN [panic |-> FALSE, err |-> t.err, left |-> Len(t.br.src), frame |-> NilFrame]
    ELSE [panic |-> FALSE, err |-> "nil", left |-> Len(t.br.src),
          frame |-> [kind |-> kind, Encoding |-> encoding,
                     Language |-> SliceBytes(t.br, language),
                     Description |-> decodeText(d.text, encoding),
                     Text |-> decodeText(t.out, encoding)]]

\* the parsers after description := br.ReadText(encoding): the rest is read into
\* the bytes.Buffer of capacity c that getBytesBuffer gave; language is the slice
\* br.Next(3) returned
LanguageFrameParsed(kind, encoding, language, d, c) ==
    IF d.br.err # "nil"
    THEN [panic |-> FALSE, err |-> d.br.err, left |-> Len(d.br.src), frame |-> NilFrame]
    ELSE LanguageFrameRead(kind, encoding, language, d, BufferReadFrom(d.br, <<>>, c))

\* encoding := getEncoding(br.ReadByte()); language := br.Next(3)
LanguageFrameAfterEncoding(kind, e, c) ==
    LanguageFrameParsed(kind, getEncoding(e.b), BrNext(e.br, 3),
                        BrReadText(BrNext(e.br, 3).br, getEncoding(e.b)), c)

\* parseCommentFrame(br, version), br reading data and bbPool giving a buffer of
\* capacity c
parseCommentFrame(data, c) ==
    LanguageFrameAfterEncoding("CommentFrame", BrReadByte(NewBr(data)), c)

\* parseUnsynchronisedLyricsFrame(br, version); Description and Text stand for
\* ContentDescriptor and Lyrics
parseUnsynchronisedLyricsFrame(data, c) ==
    LanguageFrameAfterEncoding("UnsynchronisedLyricsFrame", BrReadByte(NewBr(data)), c)
(***************************************************************************)
(* The other body parsers of the parsers map: parseUserDefinedTextFrame    *)
(* (link_frame.go), parseUFIDFrame (part_001), parsePopularimeterFrame     *)
(* (part_004), and parseUnknownFrame for an id without a parser.  Each is  *)
(* given a bufferedReader br over the body; left is how many bytes of the  *)
(* body br has not taken from its source when the parser returns.          *)
(***************************************************************************)
\* parseUserDefinedTextFrame after value.ReadFrom(br)
UserDefinedTextRead(encoding, d, t) ==
    IF t.err # "nil" THEN [err |-> t.err, frame |-> NilFrame, left |-> Len(t.br.src)]
    ELSE [err |-> "nil",
          frame |-> [kind |-> "UserDefinedTextFrame", Encoding |-> encoding,
                     Description |-> decodeText(d.text, encoding),
                     Value |-> decodeMulti(t.out, encoding)[1],
                     Multi |-> decodeMulti(t.out, encoding)],
          left |-> Len(t.br.src)]

\* parseUserDefinedTextFrame after description := br.ReadText(encoding)
UserDefinedTextParsed(encoding, d, c) ==
    IF d.br.err # "nil" THEN [err |-> d.br.err, frame |-> NilFrame, left |-> Len(d.br.src)]
    ELSE UserDefinedTextRead(encoding, d, BufferReadFrom(d.br, <<>>, c))

UserDefinedTextAfterEncoding(e, c) ==
    UserDefinedTextParsed(getEncoding(e.b), BrReadText(e.br, getEncoding(e.b)), c)

\* parseUserDefinedTextFrame(br, version), br reading data and bbPool giving a
\* buffer of capacity c
parseUserDefinedTextFrame(data, c) ==
    UserDefinedTextAfterEncoding(BrReadByte(NewBr(data)), c)

\* parseUFIDFrame after owner := br.ReadText(EncodingISO) gave o and
\* ident := br.ReadAll() gave a
UFIDRead(o, a) ==
    IF a.br.err # "nil" THEN [err |-> a.br.err, frame |-> NilFrame, left |-> Len(a.br.src)]
    ELSE [err |-> "nil",
          frame |-> UFIDFrame(decodeText(o.text, EncodingISOKey), a.b),
          left |-> Len(a.br.src)]

UFIDOwnerRead(o) == UFIDRead(o, BrReadAll(o.br))

\* parseUFIDFrame(br, version), br reading data
parseUFIDFrame(data) == UFIDOwnerRead(BrReadText(NewBr(data), EncodingISOKey))

\* big.NewInt(0).SetBytes(b), kept as the bytes Bytes() gives: b without the zero
\* bytes it starts with
RECURSIVE SetBytes(_)
SetBytes(b) ==
    IF b = <<>> THEN <<>>
    ELSE IF Head(b) = 0 THEN SetBytes(Tail(b))
    ELSE b

\* parsePopularimeterFrame after email := br.ReadText(EncodingISO) gave e,
\* rating := br.ReadByte() gave r and br.ReadAll() gave a: the error is always nil
PopularimeterRead(e, r, a) ==
    [err |-> "nil", frame |-> PopularimeterFrame(e.text, r.b, SetBytes(a.b)),
     left |-> Len(a.br.src)]

PopularimeterRatingRead(e, r) == PopularimeterRead(e, r, BrReadAll(r.br))

PopularimeterEmailRead(e) == PopularimeterRatingRead(e, BrReadByte(e.br))

\* parsePopularimeterFrame(br, version), br reading data
parsePopularimeterFrame(data) ==
    PopularimeterEmailRead(BrReadText(NewBr(data), EncodingISOKey))

\* parseUnknownFrame after body := br.ReadAll(): the frame and br.Err()
UnknownRead(a) ==
    [err |-> a.br.err, frame |-> UnknownFrame(a.b), left |-> Len(a.br.src)]

\* parseUnknownFrame(br), br reading data
parseUnknownFrame(data) == UnknownRead(BrReadAll(NewBr(data)))

\* what br has not taken of body when parseTextFrame or parseLinkFrame returns
TextBodyLeft(body, c) == Len(TextBodyRead(BrReadByte(NewBr(body)), c).src)
(***************************************************************************)
(* The size codec as a state machine                                       *)
(***************************************************************************)
SizeInit ==
    /\ szPc = "start"
    /\ szSize = Zero64
    /\ szSynchSafe = FALSE
    /\ szOut = <<>>
    /\ szWErr = "nil"
    /\ szParsed = Zero64
    /\ szPErr = "nil"

\* bw.WriteBytesSize(size, synchSafe) on a fresh writer
WriteBytesSize ==
    /\ szPc = "start"
    /\ \E synchSafe \in BOOLEAN :
         \E size \in SizeInputs(synchSafe) :
            LET r == writeBytesSize(size, synchSafe) IN
            /\ szSize' = size
            /\ szSynchSafe' = synchSafe
            /\ szOut' = r.out
            /\ szWErr' = r.err
    /\ szPc' = "written"
    /\ UNCHANGED <<szParsed, szPErr>>
    /\ UNCHANGED notSize

\* parseSize applied, with the same mode, to the bytes just written
ParseWritten ==
    /\ szPc = "written"
    /\ szWErr = "nil"
    /\ LET r == parseSize(szOut, szSynchSafe) IN
          /\ szParsed' = r.size
          /\ szPErr' = r.err
    /\ szPc' = "parsed"
    /\ UNCHANGED <<szSize, szSynchSafe, szOut, szWErr>>
    /\ UNCHANGED notSize

\* parseSize applied to bytes read from a file
ParseData ==
    /\ szPc = "start"
    /\ \E synchSafe \in BOOLEAN :
         \E data \in DataInputs :
            LET r == parseSize(data, synchSafe) IN
            /\ szSynchSafe' = synchSafe
            /\ szOut' = data
            /\ szParsed' = r.size
            /\ szPErr' = r.err
    /\ szPc' = "decoded"
    /\ UNCHANGED <<szSize, szWErr>>
    /\ UNCHANGED notSize

SizeRestart ==
    /\ szPc \in {"written", "parsed", "decoded"}
    /\ szPc' = "start"
    /\ szSize' = Zero64
    /\ szSynchSafe' = FALSE
    /\ szOut' = <<>>
    /\ szWErr' = "nil"
    /\ szParsed' = Zero64
    /\ szPErr' = "nil"
    /\ UNCHANGED notSize

SizeNext == WriteBytesSize \/ ParseWritten \/ ParseData \/ SizeRestart

(***************************************************************************)
(* One frame: Size() followed by WriteTo() into a fresh writer             *)
(***************************************************************************)
MaxTextLen == 1

MaxSyncTexts == 1

\* 'a', e-acute (Latin-1), A-macron (U+0100, outside Latin-1), an emoji
RuneChoices == {97, 233, 256, 128512}

RECURSIVE SeqsUpTo(_, _)
SeqsUpTo(S, n) ==
    IF n = 0 THEN {<<>>}
    ELSE LET shorter == SeqsUpTo(S, n - 1)
         IN  shorter \cup {Append(s, x) : s \in {t \in shorter : Len(t) = n - 1}, x \in S}

TextInputs == SeqsUpTo(RuneChoices, MaxTextLen)

ShortTextInputs == {<<>>, <<233>>}

\* "eng", the two-letter "en", and e-acute followed by "e": two letters in three bytes
LanguageInputs == {<<101, 110, 103>>, <<101, 110>>, <<233, 101>>}

SyncTextInputs ==
    SeqsUpTo({[Text |-> t, Timestamp |-> ts] :
                 t \in TextInputs, ts \in {Zero64, FromNat(65793)}}, MaxSyncTexts)

OffsetInputs == {Zero64, [i \in 1..UintBits |-> IF i <= 32 THEN 1 ELSE 0]}

\* no subframe, "a" in UTF-8, A-macron in UTF-16, A-macron in ISO-8859-1 (which
\* cannot encode it)
SubframeInputs == {<<>>, <<TextFrame(EncodingUTF8Key, <<97>>)>>,
                   <<TextFrame(EncodingUTF16Key, <<256>>)>>,
                   <<TextFrame(EncodingISOKey, <<256>>)>>}

FrameInputs ==
    {TextFrame(e, t) : e \in EncodingKeys, t \in TextInputs}
    \cup {LinkFrame(e, t) : e \in EncodingKeys, t \in TextInputs}
    \cup {UserDefinedTextFrame(e, d, t) :
             e \in EncodingKeys, d \in TextInputs, t \in TextInputs}
    \cup {CommentFrame(e, l, d, t) :
             e \in EncodingKeys, l \in LanguageInputs, d \in TextInputs, t \in TextInputs}
    \cup {UnsynchronisedLyricsFrame(e, l, d, t) :
             e \in EncodingKeys, l \in LanguageInputs, d \in TextInputs, t \in TextInputs}
    \cup {SynchronisedLyricsFrame(e, l, 2, 1, d, ts) :
             e \in EncodingKeys, l \in LanguageInputs, d \in ShortTextInputs,
             ts \in SyncTextInputs}
    \cup {PictureFrame(e, m, p, d, pic) :
             e \in EncodingKeys, m \in {<<>>, <<105, 47, 112>>}, p \in {0, 3, 171},
             d \in TextInputs, pic \in {<<>>, <<137, 80>>}}
    \cup {PopularimeterFrame(m, r, c) :
             m \in ShortTextInputs \cup {<<97>>}, r \in {0, 255},
             c \in {<<>>, <<1>>, <<1, 0, 0, 0, 0>>}}
    \cup {UFIDFrame(o, i) : o \in TextInputs, i \in {<<>>, <<1, 2>>}}
    \cup {ChapterFrame(el, st, 2000000000, so, Zero64, t, d) :
             el \in ShortTextInputs \cup {<<99>>, <<256>>},
             st \in {0, 1500000, -1000000}, so \in OffsetInputs,
             t \in SubframeInputs, d \in SubframeInputs}
    \cup {UnknownFrame(b) : b \in {<<>>, <<1, 2, 3>>}}

FrameInit ==
    /\ frPc = "start"
    /\ frFrame = UnknownFrame(<<>>)
    /\ frSize = [panic |-> FALSE, n |-> 0]
    /\ frOut = <<>>
    /\ frN = 0
    /\ frErr = "nil"
    /\ frPanic = FALSE

\* n := f.Size()
FrameSize ==
    /\ frPc = "start"
    /\ \E f \in FrameInputs :
          /\ frFrame' = f
          /\ frSize' = IF SizePanics(f) THEN [panic |-> TRUE, n |-> 0]
                       ELSE [panic |-> FALSE, n |-> Size(f)]
    /\ frPc' = "sized"
    /\ UNCHANGED <<frOut, frN, frErr, frPanic>>
    /\ UNCHANGED notFrame

\* what w, a plain io.Writer, has received after frame.WriteTo(w) with the result
\* r: UnknownFrame writes to w itself, the other frames write to a bufferedWriter
\* over w, which passes the bytes on when it is flushed
WriterReceived(f, r) ==
    IF f.kind = "UnknownFrame" THEN r.bw.out ELSE Received(r.bw)

\* n, err := f.WriteTo(w), w a plain io.Writer that accepts every byte
FrameWriteTo ==
    /\ frPc = "sized"
    /\ LET r == WriteTo(frFrame, NewBw) IN
          /\ frOut' = WriterReceived(frFrame, r)
          /\ frN' = r.n
          /\ frErr' = r.err
          /\ frPanic' = r.panic
    /\ frPc' = "written"
    /\ UNCHANGED <<frFrame, frSize>>
    /\ UNCHANGED notFrame

FrameRestart ==
    /\ frPc = "written"
    /\ frPc' = "start"
    /\ frFrame' = UnknownFrame(<<>>)
    /\ frSize' = [panic |-> FALSE, n |-> 0]
    /\ frOut' = <<>>
    /\ frN' = 0
    /\ frErr' = "nil"
    /\ frPanic' = FALSE
    /\ UNCHANGED notFrame

FrameNext == FrameSize \/ FrameWriteTo \/ FrameRestart

(***************************************************************************)
(* One sequence: getSequence() and AddFrame(f)                             *)
(***************************************************************************)
MaxSeqLen == 3

Eng == <<101, 110, 103>>

SeqFrameInputs ==
    {CommentFrame(EncodingUTF8Key, Eng, <<>>, <<97>>),
     CommentFrame(EncodingUTF16Key, Eng, <<>>, <<233>>),
     CommentFrame(EncodingUTF8Key, Eng, <<100>>, <<97>>),
     UFIDFrame(<<233>>, <<1>>),
     TextFrame(EncodingUTF8Key, <<97>>),
     LinkFrame(EncodingUTF8Key, <<98>>),
     UnknownFrame(<<1, 2>>)}

NoCall == [op |-> "none", f |-> UnknownFrame(<<>>), rnd |-> <<>>, before |-> <<>>]

SeqInit ==
    /\ sqFrames = <<>>
    /\ sqLast = NoCall

\* s.AddFrame(f)
SeqAddFrame ==
    /\ \E f \in SeqFrameInputs :
         \E rnd \in RndChoices(f, sqFrames) :
            /\ Len(sequenceAddFrame(sqFrames, f, rnd)) <= MaxSeqLen
            /\ sqFrames' = sequenceAddFrame(sqFrames, f, rnd)
            /\ sqLast' = [op |-> "AddFrame", f |-> f, rnd |-> rnd, before |-> sqFrames]
    /\ UNCHANGED notSeq

\* putSequence(s) followed by s = getSequence()
SeqGetSequence ==
    /\ sqLast.op # "none"
    /\ sqFrames' = <<>>
    /\ sqLast' = [NoCall EXCEPT !.op = "getSequence"]
    /\ UNCHANGED notSeq

SeqNext == SeqAddFrame \/ SeqGetSequence

(***************************************************************************)
(* One tag: AddFrame, DeleteFrames, DeleteAllFrames, SetVersion,           *)
(* SetDefaultEncoding, WriteTo                                             *)
(***************************************************************************)
MaxTagFrames == 2

BigBodyLen == 130

TagIds == {TitleFrameID, UserDefinedTextFrameID, COMM, MCDI, IPLS}

TagFrameInputs ==
    {TextFrame(EncodingUTF8Key, <<97>>),
     CommentFrame(EncodingUTF16Key, Eng, <<>>, <<97>>),
     CommentFrame(EncodingISOKey, Eng, <<>>, <<233>>),
     CommentFrame(EncodingISOKey, <<101, 110>>, <<100>>, <<97>>),
     UFIDFrame(<<233>>, <<1>>),
     UnknownFrame([i \in 1..BigBodyLen |-> 0])}

\* tag.init(rd, 0, 4) of NewEmptyTag
NewEmptyTag ==
    [frames |-> EmptyMap, sequences |-> EmptyMap, version |-> 4,
     defaultEncoding |-> EncodingUTF8Key]

NoWrite == [done |-> FALSE, order |-> <<>>, panic |-> FALSE, out |-> <<>>, n |-> 0, err |-> "nil"]

\* the record of the last call on the tag: its name, and the id it was given when
\* it is DeleteFrames
TagCall(op, id) == [op |-> op, id |-> id]

OtherCall == TagCall("other", <<>>)

TagInit ==
    /\ tgTag = NewEmptyTag
    /\ tgW = NoWrite
    /\ tgLast = OtherCall

AddFrame ==
    /\ \E id \in TagIds \cup {<<>>} :
         \E f \in TagFrameInputs :
            \E rnd \in RndChoices(f, TagGetFrames(tgTag, id)) :
               /\ TagCount(TagAddFrame(tgTag, id, f, rnd)) <= MaxTagFrames
               /\ tgTag' = TagAddFrame(tgTag, id, f, rnd)
               /\ tgLast' = OtherCall
    /\ tgW' = NoWrite
    /\ UNCHANGED notTag

DeleteFrames ==
    /\ \E id \in TagIds :
         /\ tgTag' = TagDeleteFrames(tgTag, id)
         /\ tgLast' = TagCall("DeleteFrames", id)
    /\ tgW' = NoWrite
    /\ UNCHANGED notTag

DeleteAllFrames ==
    /\ tgTag' = TagDeleteAllFrames(tgTag)
    /\ tgLast' = OtherCall
    /\ tgW' = NoWrite
    /\ UNCHANGED notTag

SetVersion ==
    /\ \E version \in {2, 3, 4, 5} : tgTag' = TagSetVersion(tgTag, version)
    /\ tgLast' = OtherCall
    /\ tgW' = NoWrite
    /\ UNCHANGED notTag

\* ISO-8859-1, which SetVersion(3) also selects, and UTF-16, which no version selects
DefaultEncodingInputs == {EncodingISOKey, EncodingUTF16Key}

SetDefaultEncoding ==
    /\ \E encoding \in DefaultEncodingInputs : tgTag' = TagSetDefaultEncoding(tgTag, encoding)
    /\ tgLast' = OtherCall
    /\ tgW' = NoWrite
    /\ UNCHANGED notTag

\* the record of one WriteTo
Written(order, r) ==
    [done |-> TRUE, order |-> order, panic |-> r.panic, out |-> r.out, n |-> r.n,
     err |-> r.err]

\* n, err := tag.WriteTo(w)
TagWriteToStep ==
    /\ ~tgW.done
    /\ \E order \in IterationOrders(tgTag) : tgW' = Written(order, TagWriteTo(tgTag, order))
    /\ tgLast' = OtherCall
    /\ UNCHANGED tgTag
    /\ UNCHANGED notTag

(***************************************************************************)
(* One tag on a file: Open, AddFrame, DeleteAllFrames, Close and Save,     *)
(* Save one file-system call at a time.                                    *)
(***************************************************************************)
MaxFaults == 1

\* the audio data of the file, which carries no tag at first: an MPEG frame header
\* and six bytes after it, no fewer than parseHeader reads
Audio == <<255, 251, 144, 100, 0, 1, 2, 3, 4, 5>>

\* the frames added between Saves, as <<id, frame>>; the second cannot be written
SaveFrameInputs ==
    {<<TitleFrameID, TextFrame(EncodingUTF8Key, <<97>>)>>,
     <<COMM, CommentFrame(EncodingISOKey, <<101, 110>>, <<100>>, <<97>>)>>}

\* tag.reader of a tag that has no file: not set (NewEmptyTag), or a reader that
\* is no *os.File (ParseReader)
NonFileReaders == {"none", "reader"}

SaveInit ==
    /\ svPc = "idle"
    /\ svFile = Audio
    /\ svFileTag = [tag |-> NewEmptyTag, size |-> 0]
    /\ svTemp = Absent
    /\ svTag = NewEmptyTag
    /\ svOriginalSize = 0
    /\ svReader = "none"
    /\ svCall = NoSave
    /\ svFaults = 0

\* Options{Parse: true}
ParseAll == [Parse |-> TRUE, ParseFrames |-> {}]

\* tag := NewEmptyTag(); err := tag.parse(rd, opts), rd a reader of the kind named
\* reader over the bytes of the file, and o what the file's header leads to: a
\* header parse refuses leaves the new tag as NewEmptyTag made it, without a
\* reader; the frames parseFrames finds are those of the tag the file was saved with
ParsedFile(reader, o) ==
    IF ~o.init
    THEN /\ svReader' = "none"
         /\ svTag' = NewEmptyTag
         /\ svOriginalSize' = 0
    ELSE /\ svReader' = reader
         /\ svTag' = IF o.err = "frames" THEN svFileTag.tag ELSE NewEmptyTag
         /\ svOriginalSize' = o.size

\* tag, err := Open(name, Options{Parse: true}): os.Open, then ParseReader
Open ==
    /\ svPc = "idle"
    /\ svReader # "open"
    /\ \E opened \in BOOLEAN :
         IF opened
         THEN ParsedFile("open", parseOutcome(parseHeader(svFile), ParseAll))
         ELSE UNCHANGED <<svReader, svTag, svOriginalSize>>
    /\ svCall' = NoSave
    /\ UNCHANGED <<svPc, svFile, svFileTag, svTemp, svFaults>>
    /\ UNCHANGED notSave

\* Close that does not look at what the reader is
CloseAnyReader ==
    /\ svPc = "idle"
    /\ svReader \in {"none", "reader", "open", "closed"}
    /\ svReader' = "closed"
    /\ svCall' = NoSave
    /\ UNCHANGED <<svPc, svFile, svFileTag, svTemp, svTag, svOriginalSize, svFaults>>
    /\ UNCHANGED notSave

\* tag.Close(): file, ok := tag.reader.(*os.File); if !ok { return ErrNoFile }
Close ==
    /\ svPc = "idle"
    /\ svReader \in {"none", "reader", "open", "closed"}
    /\ IF svReader \in NonFileReaders
       THEN /\ svCall' = Failed(NewCall(svFile, svTemp, svOriginalSize), "close", "ErrNoFile")
            /\ UNCHANGED svReader
       ELSE /\ svReader' = "closed"
            /\ svCall' = NoSave
    /\ UNCHANGED <<svPc, svFile, svFileTag, svTemp, svTag, svOriginalSize, svFaults>>
    /\ UNCHANGED notSave

\* tag, err := ParseReader(rd, Options{Parse: true}), rd a reader that is no
\* file over the bytes the file holds
SaveParseReader ==
    /\ svPc = "idle"
    /\ svReader = "none"
    /\ ParsedFile("reader", parseOutcome(parseHeader(svFile), ParseAll))
    /\ svCall' = NoSave
    /\ UNCHANGED <<svPc, svFile, svFileTag, svTemp, svFaults>>
    /\ UNCHANGED notSave

\* tag.AddFrame(id, f) between two Saves
SaveAddFrame ==
    /\ svPc = "idle"
    /\ \E a \in SaveFrameInputs :
         \E rnd \in RndChoices(a[2], TagGetFrames(svTag, a[1])) :
            svTag' = TagAddFrame(svTag, a[1], a[2], rnd)
    /\ svCall' = NoSave
    /\ UNCHANGED <<svPc, svFile, svFileTag, svTemp, svOriginalSize, svReader, svFaults>>
    /\ UNCHANGED notSave

\* tag.DeleteAllFrames() between two Saves
SaveDeleteAllFrames ==
    /\ svPc = "idle"
    /\ svTag' = TagDeleteAllFrames(svTag)
    /\ svCall' = NoSave
    /\ UNCHANGED <<svPc, svFile, svFileTag, svTemp, svOriginalSize, svReader, svFaults>>
    /\ UNCHANGED notSave

\* Save: file, ok := tag.reader.(*os.File); if !ok { return ErrNoFile }
SaveEnter ==
    /\ svPc = "idle"
    /\ IF svReader \in NonFileReaders
       THEN /\ svCall' = Failed(NewCall(svFile, svTemp, svOriginalSize), "reader", "ErrNoFile")
            /\ svPc' = "idle"
       ELSE /\ svCall' = NewCall(svFile, svTemp, svOriginalSize)
            /\ svPc' = "stat"
    /\ UNCHANGED <<svFile, svFileTag, svTemp, svTag, svOriginalSize, svReader, svFaults>>
    /\ UNCHANGED notSave

\* originalStat, err := originalFile.Stat(); a closed or nil file has none
SaveStat ==
    /\ svPc = "stat"
    /\ \E ok \in {b \in BOOLEAN : b => svReader = "open"} :
         IF ok
         THEN /\ svPc' = "create"
              /\ UNCHANGED svCall
         ELSE /\ svPc' = "return"
              /\ svCall' = Failed(svCall, "stat", "stat")
    /\ UNCHANGED <<svFile, svFileTag, svTemp, svTag, svOriginalSize, svReader, svFaults>>
    /\ UNCHANGED notSave

\* newFile, err := os.OpenFile(name, os.O_RDWR|os.O_CREATE, mode); the
\* removal of the temporary file is deferred from here on
SaveCreate ==
    /\ svPc = "create"
    /\ \E ok \in BOOLEAN :
         IF ok
         THEN /\ svPc' = "write"
              /\ svTemp' = OpenFileCreate(svTemp)
              /\ svCall' = [svCall EXCEPT !.remove = TRUE]
         ELSE /\ svPc' = "return"
              /\ svCall' = Failed(svCall, "create", "create")
              /\ UNCHANGED svTemp
    /\ UNCHANGED <<svFile, svFileTag, svTag, svOriginalSize, svReader, svFaults>>
    /\ UNCHANGED notSave

\* the bytes of a Tag.WriteTo that came to newFile, and the call after it
TagWritten(call, r, k) ==
    IF r.err # "nil" THEN Failed([call EXCEPT !.tagOut = r.out, !.n = r.n], "write", r.err)
    ELSE IF k < Len(r.out)
         THEN Failed([call EXCEPT !.tagOut = SubSeq(r.out, 1, k), !.n = r.n], "write", "write")
         ELSE [call EXCEPT !.tagOut = r.out, !.n = r.n, !.tagDone = TRUE]

SaveWriteTagTo(call) ==
    /\ svCall' = call
    /\ svTemp' = [svTemp EXCEPT !.data = OverwriteAt(@, 0, call.tagOut)]
    /\ svPc' = IF call.tagDone THEN "seek" ELSE "return"

\* tagSize, err := tag.WriteTo(newFile)
SaveWriteTag ==
    /\ svPc = "write"
    /\ \E order \in IterationOrders(svTag) :
         \E k \in PartialLens(TagSize(svTag)) \cup {TagSize(svTag)} :
            SaveWriteTagTo(TagWritten(svCall, TagWriteTo(svTag, order), k))
    /\ UNCHANGED <<svFile, svFileTag, svTag, svOriginalSize, svReader, svFaults>>
    /\ UNCHANGED notSave

\* originalFile.Seek(tag.originalSize, io.SeekStart)
SaveSeek ==
    /\ svPc = "seek"
    /\ \E ok \in BOOLEAN :
         IF ok
         THEN /\ svPc' = "copy"
              /\ UNCHANGED svCall
         ELSE /\ svPc' = "return"
              /\ svCall' = Failed(svCall, "seek", "seek")
    /\ UNCHANGED <<svFile, svFileTag, svTemp, svTag, svOriginalSize, svReader, svFaults>>
    /\ UNCHANGED notSave

\* io.CopyBuffer(newFile, originalFile, buf), k bytes of the rest copied
SaveCopyOf(rest, k) ==
    /\ svTemp' = [svTemp EXCEPT !.data = OverwriteAt(@, svCall.n, SubSeq(rest, 1, k))]
    /\ IF k = Len(rest)
       THEN /\ svPc' = "close"
            /\ svCall' = [svCall EXCEPT !.copyDone = TRUE]
       ELSE /\ svPc' = "return"
            /\ svCall' = Failed(svCall, "copy", "copy")

SaveCopy ==
    /\ svPc = "copy"
    /\ \E k \in PartialLens(Len(Payload(svFile, svOriginalSize)))
                   \cup {Len(Payload(svFile, svOriginalSize))} :
         SaveCopyOf(Payload(svFile, svOriginalSize), k)
    /\ UNCHANGED <<svFile, svFileTag, svTag, svOriginalSize, svReader, svFaults>>
    /\ UNCHANGED notSave

\* newFile.Close(); originalFile.Close(), neither result looked at
SaveClose ==
    /\ svPc = "close"
    /\ \E ok \in BOOLEAN :
         svCall' = [svCall EXCEPT !.closed = IF ok THEN "ok" ELSE "failed"]
    /\ svReader' = "closed"
    /\ svPc' = "rename"
    /\ UNCHANGED <<svFile, svFileTag, svTemp, svTag, svOriginalSize, svFaults>>
    /\ UNCHANGED notSave

\* os.Rename(newFile.Name(), originalFile.Name())
SaveRename ==
    /\ svPc = "rename"
    /\ \E ok \in BOOLEAN :
         IF ok
         THEN /\ svFile' = svTemp.data
              /\ svFileTag' = [tag |-> svTag, size |-> svCall.n]
              /\ svTemp' = Absent
              /\ svCall' = [svCall EXCEPT !.renameTried = TRUE, !.remove = FALSE]
              /\ svPc' = "reopen"
         ELSE /\ svCall' = Failed([svCall EXCEPT !.renameTried = TRUE], "rename", "rename")
              /\ svPc' = "return"
              /\ UNCHANGED <<svFile, svFileTag, svTemp>>
    /\ UNCHANGED <<svTag, svOriginalSize, svReader, svFaults>>
    /\ UNCHANGED notSave

\* tag.reader, err = os.Open(originalFile.Name()); tag.originalSize = tagSize
SaveReopen ==
    /\ svPc = "reopen"
    /\ \E ok \in BOOLEAN :
         IF ok
         THEN /\ svReader' = "open"
              /\ svOriginalSize' = svCall.n
              /\ svCall' = [svCall EXCEPT !.ret = "nil"]
         ELSE /\ svReader' = "nil"
              /\ svCall' = Failed(svCall, "reopen", "reopen")
              /\ UNCHANGED svOriginalSize
    /\ svPc' = "return"
    /\ UNCHANGED <<svFile, svFileTag, svTemp, svTag, svFaults>>
    /\ UNCHANGED notSave

\* the return of Save: its deferred func runs
SaveReturn ==
    /\ svPc = "return"
    /\ \E removed \in {b \in BOOLEAN : ~b => svCall.remove /\ svFaults < MaxFaults} :
         /\ svTemp' = deferredRemove(svTemp, svCall.remove, removed)
         /\ svCall' = [svCall EXCEPT !.removeTried = svCall.remove,
                                     !.removed = svCall.remove /\ removed]
         /\ svFaults' = IF removed THEN svFaults ELSE svFaults + 1
    /\ svPc' = "idle"
    /\ UNCHANGED <<svFile, svFileTag, svTag, svOriginalSize, svReader>>
    /\ UNCHANGED notSave

\* the process is killed inside Save; the next one starts without a tag.
\* A kill and a removal that fails are the faults that leave a temporary file.
Kill ==
    /\ svPc \notin {"idle"}
    /\ svFaults < MaxFaults
    /\ svFaults' = svFaults + 1
    /\ svPc' = "idle"
    /\ svTag' = NewEmptyTag
    /\ svOriginalSize' = 0
    /\ svReader' = "none"
    /\ svCall' = NoSave
    /\ UNCHANGED <<svFile, svFileTag, svTemp>>
    /\ UNCHANGED notSave

SaveNext ==
    \/ Open \/ Close \/ SaveParseReader \/ SaveAddFrame \/ SaveDeleteAllFrames
    \/ SaveEnter \/ SaveStat \/ SaveCreate \/ SaveWriteTag \/ SaveSeek \/ SaveCopy
    \/ SaveClose \/ SaveRename \/ SaveReopen \/ SaveReturn \/ Kill

(***************************************************************************)
(* One tag and the readers it is parsed from: ParseReader, Reset, and the  *)
(* loop of parseFrames one frame at a time.                                *)
(***************************************************************************)
MaxChunks == 2

XXXX == <<88, 88, 88, 88>>

YYYY == <<89, 89, 89, 89>>

\* a frame as it lies in a file: id, size, two flag bytes, n body bytes
FrameBytes(id, sizeByte, n) == id \o <<0, 0, 0, sizeByte, 0, 0>> \o [i \in 1..n |-> 7]

\* what may follow a tag header: whole frames (IPLS is kept one per tag, XXXX and
\* YYYY in sequences), a frame cut short, a frame whose
\* size has the high bit, ten bytes of padding, and three bytes of a header
ChunkInputs ==
    {FrameBytes(XXXX, 1, 1), FrameBytes(YYYY, 2, 2), FrameBytes(XXXX, 2, 1),
     FrameBytes(IPLS, 1, 1), FrameBytes(XXXX, 128, 0), [i \in 1..frameHeaderSize |-> 0], <<88, 88, 88>>}

RECURSIVE ChunkSeqs(_)
ChunkSeqs(n) ==
    IF n = 0 THEN {<<>>}
    ELSE ChunkSeqs(n - 1) \cup {c \o rest : c \in ChunkInputs, rest \in ChunkSeqs(n - 1)}

\* the frame-area sizes the tag headers declare
DeclaredInputs == {0, 11, 12, 23, 40}

TagHeaderBytes(version, declared) == id3Identifier \o <<version, 0, 0, 0, 0, 0, declared>>

TaggedSources ==
    {TagHeaderBytes(version, declared) \o body :
        version \in {3, 4}, declared \in DeclaredInputs, body \in ChunkSeqs(MaxChunks)}

\* sources of fewer than tagHeaderSize bytes, with and without the marker
ShortSources ==
    {SubSeq(s, 1, n) : n \in 0..(tagHeaderSize - 1),
                       s \in {TagHeaderBytes(4, 11), [i \in 1..tagHeaderSize |-> 0]}}

\* sources of tagHeaderSize bytes and more that do not start with "ID3"
UntaggedSources ==
    {[i \in 1..tagHeaderSize |-> 0], [i \in 1..tagHeaderSize |-> 0] \o <<255, 251>>,
     <<73, 68, 50, 4, 0, 0, 0, 0, 0, 11>> \o FrameBytes(XXXX, 1, 1),
     <<255, 251>> \o TagHeaderBytes(4, 11) \o FrameBytes(XXXX, 1, 1)}

\* tagged sources parse refuses: version 2, and a size byte with the high bit
RefusedSources ==
    {TagHeaderBytes(2, 11) \o FrameBytes(XXXX, 1, 1),
     TagHeaderBytes(4, 128) \o FrameBytes(XXXX, 1, 1)}

\* tagged sources of a version after 4
LaterVersionSources ==
    {TagHeaderBytes(5, 11) \o FrameBytes(XXXX, 1, 1), TagHeaderBytes(255, 0)}

\* version 3 tags whose frame header declares 2^31 and 2^32 - 1 bytes, and one
\* whose source ends six bytes into the frame header
LargeSizeSources ==
    {TagHeaderBytes(3, 40) \o XXXX \o <<128, 0, 0, 0, 0, 0, 7>>,
     TagHeaderBytes(3, 40) \o XXXX \o <<255, 255, 255, 255, 0, 0, 7>>,
     TagHeaderBytes(3, 11) \o [i \in 1..6 |-> 88]}

\* the four bytes of a synch-safe size
SynchSafeBytes(n) ==
    <<n \div 2097152, (n \div 16384) % 128, (n \div 128) % 128, n % 128>>

\* a body that needs a second Read into the pooled slice
LongSkipLen == defaultBufferSize + 5

\* a version 4 tag with a frame of LongSkipLen body bytes, the last of them 128,
\* and three bytes of a header behind it: when the frame is skipped, the second
\* Read of skipReaderBuf leaves the five last body bytes at the start of the slice
LongSkipSources ==
    {id3Identifier \o <<4, 0, 0>> \o SynchSafeBytes(2 * frameHeaderSize + LongSkipLen + 10)
        \o XXXX \o SynchSafeBytes(LongSkipLen) \o <<0, 0>>
        \o [i \in 1..LongSkipLen |-> IF i = LongSkipLen THEN 128 ELSE 7]
        \o tail : tail \in {<<89, 89, 89>>, FrameBytes(IPLS, 1, 1)}}

\* what readers that answer 0 bytes and no error at their end deliver: a
\* version 4 tag header that declares more than the frames that follow it
StallingSources == {TagHeaderBytes(4, 40) \o body : body \in ChunkSeqs(MaxChunks)}

ParseSources ==
    TaggedSources \cup ShortSources \cup UntaggedSources \cup RefusedSources
        \cup LaterVersionSources \cup LargeSizeSources \cup LongSkipSources

\* the sources a tag is reset to
ResetSources ==
    {<<>>, <<73, 68, 51>>, [i \in 1..(tagHeaderSize - 1) |-> 0],
     [i \in 1..tagHeaderSize |-> 0] \o <<255, 251>>,
     TagHeaderBytes(3, 11) \o FrameBytes(XXXX, 1, 1),
     TagHeaderBytes(4, 23) \o FrameBytes(XXXX, 1, 1) \o FrameBytes(YYYY, 2, 2),
     TagHeaderBytes(2, 11) \o FrameBytes(XXXX, 1, 1)}

\* Options: Parse, and ParseFrames given as frame ids
OptionsInputs ==
    {[Parse |-> p, ParseFrames |-> ids] : p \in BOOLEAN, ids \in {{}, {IPLS}, {IPLS, YYYY}}}

\* what the pooled slice may hold from its last use
StaleBufs == {[i \in 1..frameHeaderSize |-> 0], FrameBytes(YYYY, 1, 0)}

\* the last frame header the loop read: what parseFrameHeader returned for it, the
\* frame area left before it, and whether its frame was added
NotSeen ==
    [seen |-> FALSE, bodySize |-> Int64(0), remaining |-> Int64(0), added |-> FALSE,
     err |-> "nil"]

ParseInit ==
    /\ psPc = "idle"
    /\ psSrc = <<>>
    /\ psEnd = "EOF"
    /\ psPos = 0
    /\ psTag = NewEmptyTag
    /\ psOriginalSize = 0
    /\ psReader = "nil"
    /\ psFramesSize = Int64(0)
    /\ psBuf = [i \in 1..frameHeaderSize |-> 0]
    /\ psLimit = Int64(0)
    /\ psIds = {}
    /\ psProvided = FALSE
    /\ psErr = "none"
    /\ psCall = [src |-> <<>>, version |-> 4, originalSize |-> 0, reader |-> "nil", ids |-> {}]
    /\ psAdded = <<>>
    /\ psLast = NotSeen

\* tag.parse(rd, opts), rd a reader over src that answers end once src is used
\* up, on a tag in the given state; o is what the tag header leads to
ParseFrom(tag, originalSize, reader, src, end, opts, o) ==
    /\ psSrc' = src
    /\ psEnd' = end
    /\ psPos' = Len(ReadAt(src, 0, tagHeaderSize))
    /\ psCall' = [src |-> src, version |-> tag.version, originalSize |-> originalSize,
                  reader |-> reader,
                  ids |-> IF o.err = "frames" THEN opts.ParseFrames ELSE {}]
    /\ psTag' = IF o.init THEN TagInitFrames(tag, o.version) ELSE tag
    /\ psOriginalSize' = IF o.init THEN o.size ELSE originalSize
    /\ psReader' = IF o.init THEN "rd" ELSE reader
    /\ psAdded' = <<>>
    /\ psLast' = NotSeen
    /\ psLimit' = Int64(0)
    /\ IF o.err = "frames"
       THEN /\ psPc' = "frames"
            /\ psErr' = "pending"
            /\ psFramesSize' = Int64(o.size - tagHeaderSize)
            /\ psIds' = opts.ParseFrames
            /\ psProvided' = (opts.ParseFrames # {})
            /\ psBuf' \in StaleBufs
       ELSE /\ psPc' = "idle"
            /\ psErr' = o.err
            /\ UNCHANGED <<psFramesSize, psIds, psProvided, psBuf>>

\* the reader a tag holds when parse is given another one
EarlierReader(reader) == IF reader = "nil" THEN "nil" ELSE "earlier"

\* tag, err := ParseReader(rd, opts)
ParseReader ==
    /\ psPc = "idle"
    /\ psErr = "none"
    /\ \E src \in ParseSources :
         \E opts \in OptionsInputs :
            ParseFrom(NewEmptyTag, 0, "nil", src, "EOF", opts,
                      parseOutcome(parseHeader(src), opts))
    /\ UNCHANGED notParse

\* tag, err := ParseReader(rd, opts), rd a reader that answers 0 bytes and no
\* error once its bytes are used up
ParseStalling ==
    /\ psPc = "idle"
    /\ psErr = "none"
    /\ \E src \in StallingSources :
         \E opts \in OptionsInputs :
            ParseFrom(NewEmptyTag, 0, "nil", src, "stall", opts,
                      parseOutcome(parseHeader(src), opts))
    /\ UNCHANGED notParse

\* err := tag.Reset(rd, opts)
Reset ==
    /\ psPc = "idle"
    /\ psErr # "none"
    /\ \E src \in ResetSources :
         \E opts \in OptionsInputs :
            ParseFrom(TagDeleteAllFrames(psTag), psOriginalSize, EarlierReader(psReader), src,
                      "EOF", opts, parseOutcome(parseHeader(src), opts))
    /\ UNCHANGED notParse

\* parseFrames leaves its loop and returns err
ParseReturn(err) ==
    /\ psPc' = "idle"
    /\ psErr' = err

\* parseableIDs after the frame with this id was added: with sequence ids deleted too
parseableAfterAny(ids, id, provided) == IF provided THEN ids \ {id} ELSE ids

\* parseableIDs after the frame with this id was added
parseableAfter(ids, id, provided) ==
    IF provided /\ ~mustFrameBeInSequence(id) THEN ids \ {id} ELSE ids

\* the frame is parsed and added: parseFrameBody, tag.AddFrame, parseableIDs; read
\* is how many bytes the Read of the header delivered
ParseAddFrame(h, read, body, left) ==
    /\ \E rnd \in RndChoices(UnknownFrame(body), TagGetFrames(psTag, h.id)) :
         psTag' = TagAddFrame(psTag, h.id, UnknownFrame(body), rnd)
    /\ psAdded' = Append(psAdded, [id |-> h.id, bodySize |-> h.bodySize])
    /\ psLast' = [seen |-> TRUE, bodySize |-> h.bodySize, remaining |-> psFramesSize,
                  added |-> TRUE, err |-> "nil"]
    /\ psFramesSize' = left
    /\ psPos' = psPos + read + Len(body)
    /\ psIds' = parseableAfter(psIds, h.id, psProvided)
    /\ UNCHANGED psLimit
    /\ IF psProvided /\ ~mustFrameBeInSequence(h.id) /\ psIds' = {}
       THEN ParseReturn("nil")
       ELSE UNCHANGED <<psPc, psErr>>

\* parseFrameBody on a body that tag.reader does not hold in full, tag.reader
\* answering 0 bytes and no error at its end: ReadAll of parseUnknownFrame calls
\* bytes.Buffer.ReadFrom, which reads until an error and gets none; the limited
\* reader of the body is left with N above 0
ParseReadAllGoesOn(h, read, body, left) ==
    /\ psPc' = "readall"
    /\ psPos' = psPos + read + Len(body)
    /\ psFramesSize' = left
    /\ psLimit' = Int64Sub(h.bodySize, Int64(Len(body)))
    /\ psLast' = [seen |-> TRUE, bodySize |-> h.bodySize, remaining |-> psFramesSize,
                  added |-> FALSE, err |-> "nil"]
    /\ UNCHANGED <<psTag, psAdded, psIds, psErr>>

\* the body is parsed: it is read from where the header ended
ParseBody(h, read, body, left) ==
    IF psEnd = "stall" /\ Int64Less(Int64(Len(body)), h.bodySize)
    THEN ParseReadAllGoesOn(h, read, body, left)
    ELSE ParseAddFrame(h, read, body, left)

\* one round of the loop after the Read of the header delivered read bytes into
\* fhBuf; a body is read from where the header ended, and a body that is not
\* looked for is left to the loop of skipReaderBuf, with bodyReader limited to
\* bodySize bytes of tag.reader
ParseFrameOf(fhBuf, read, h, left) ==
    IF h.err # "nil"
    THEN /\ ParseReturn("nil")
         /\ psBuf' = fhBuf
         /\ psPos' = psPos + read
         /\ psLast' = [seen |-> FALSE, bodySize |-> Int64(0), remaining |-> psFramesSize,
                       added |-> FALSE, err |-> h.err]
         /\ UNCHANGED <<psTag, psAdded, psFramesSize, psIds, psLimit>>
    ELSE IF Int64Less(left, Int64(0))
    THEN /\ ParseReturn("ErrBodyOverflow")
         /\ psBuf' = fhBuf
         /\ psPos' = psPos + read
         /\ psFramesSize' = left
         /\ psLast' = [seen |-> TRUE, bodySize |-> h.bodySize, remaining |-> psFramesSize,
                       added |-> FALSE, err |-> "nil"]
         /\ UNCHANGED <<psTag, psAdded, psIds, psLimit>>
    ELSE IF psProvided /\ h.id \notin psIds
    THEN /\ psPc' = "skip"
         /\ psLimit' = h.bodySize
         /\ psBuf' = fhBuf
         /\ psPos' = psPos + read
         /\ psFramesSize' = left
         /\ psLast' = [seen |-> TRUE, bodySize |-> h.bodySize, remaining |-> psFramesSize,
                       added |-> FALSE, err |-> "nil"]
         /\ UNCHANGED <<psTag, psAdded, psIds, psErr>>
    ELSE /\ psBuf' = fhBuf
         /\ ParseBody(h, read, ReadAt(psSrc, psPos + read, ToInt(h.bodySize)), left)

ParseFrameHeaderRead(fhBuf, read, h) ==
    ParseFrameOf(fhBuf, read, h, framesSizeAfter(psFramesSize, h.bodySize))

\* one round of the loop of parseFrames; a Read of the header that delivers
\* nothing is io.EOF and ends the loop, or leaves the slice as it is and no error
ParseFrame ==
    /\ psPc = "frames"
    /\ IF ~Int64Less(Int64(0), psFramesSize) \/ (psPos >= Len(psSrc) /\ psEnd = "EOF")
       THEN /\ ParseReturn("nil")
            /\ UNCHANGED <<psTag, psAdded, psFramesSize, psIds, psBuf, psPos, psLast,
                           psLimit>>
       ELSE \E fhBuf \in {ReadInto(psBuf, ReadAt(psSrc, psPos, frameHeaderSize))} :
               \E h \in {parseFrameHeader(fhBuf, psTag.version = 4)} :
                  ParseFrameHeaderRead(fhBuf, Len(ReadAt(psSrc, psPos, frameHeaderSize)), h)
    /\ UNCHANGED <<psSrc, psEnd, psOriginalSize, psReader, psProvided, psCall>>
    /\ UNCHANGED notParse

\* one round of the loop of skipReaderBuf: _, err := rd.Read(buf), rd the limited
\* reader over tag.reader and buf the pooled slice of defaultBufferSize bytes.
\* The limited reader gives io.EOF once N is used up and asks tag.reader for at
\* most N bytes; io.EOF from either ends the loop and the frame scan goes on,
\* and after 0 bytes and no error the loop calls Read again
ParseSkipRead(got) ==
    IF ~Int64Less(Int64(0), psLimit) \/ (got = <<>> /\ psEnd = "EOF")
    THEN /\ psPc' = "frames"
         /\ UNCHANGED <<psBuf, psPos, psLimit>>
    ELSE IF got = <<>>
    THEN UNCHANGED <<psPc, psBuf, psPos, psLimit>>
    ELSE /\ psBuf' = ReadInto(psBuf, SubSeq(got, 1, Min2(Len(got), frameHeaderSize)))
         /\ psPos' = psPos + Len(got)
         /\ psLimit' = Int64Sub(psLimit, Int64(Len(got)))
         /\ UNCHANGED psPc

ParseSkip ==
    /\ psPc = "skip"
    /\ \E got \in {ReadAt(psSrc, psPos, AtMost(psLimit, defaultBufferSize))} :
          ParseSkipRead(got)
    /\ UNCHANGED <<psSrc, psEnd, psTag, psOriginalSize, psReader, psFramesSize, psIds,
                   psProvided, psErr, psCall, psAdded, psLast>>
    /\ UNCHANGED notParse

\* one more round of the loop of bytes.Buffer.ReadFrom under ReadAll: the limited
\* reader has bytes left to give, tag.reader answers 0 bytes and no error, and
\* the loop calls Read again
ParseReadAll ==
    /\ psPc = "readall"
    /\ Int64Less(Int64(0), psLimit)
    /\ ReadAt(psSrc, psPos, AtMost(psLimit, defaultBufferSize)) = <<>>
    /\ UNCHANGED parseVars
    /\ UNCHANGED notParse

\* the tag is let go; the next one comes from ParseReader
ParseDrop ==
    /\ psPc = "idle"
    /\ psErr # "none"
    /\ psPc' = "idle"
    /\ psSrc' = <<>>
    /\ psEnd' = "EOF"
    /\ psPos' = 0
    /\ psTag' = NewEmptyTag
    /\ psOriginalSize' = 0
    /\ psReader' = "nil"
    /\ psFramesSize' = Int64(0)
    /\ psBuf' = [i \in 1..frameHeaderSize |-> 0]
    /\ psLimit' = Int64(0)
    /\ psIds' = {}
    /\ psProvided' = FALSE
    /\ psErr' = "none"
    /\ psCall' = [src |-> <<>>, version |-> 4, originalSize |-> 0, reader |-> "nil",
                  ids |-> {}]
    /\ psAdded' = <<>>
    /\ psLast' = NotSeen
    /\ UNCHANGED notParse

ParseNext == ParseReader \/ Reset \/ ParseFrame \/ ParseSkip \/ ParseDrop

(***************************************************************************)
(* Reset of the tag of AddFrame and WriteTo, to a source that holds at     *)
(* most a tag header: parseFrames, if reached, finds no frame area.        *)
(***************************************************************************)
HeaderOnlySources ==
    {<<>>} \cup {TagHeaderBytes(version, 0) : version \in {2, 3, 4, 5}}

\* tag.Reset(rd, opts): DeleteAllFrames, then parse, o being what the header leads to
TagResetTo(tag, o) ==
    IF o.init THEN TagInitFrames(TagDeleteAllFrames(tag), o.version)
    ELSE TagDeleteAllFrames(tag)

\* err := tag.Reset(rd, opts)
TagReset ==
    /\ \E src \in HeaderOnlySources :
         \E opts \in OptionsInputs :
            tgTag' = TagResetTo(tgTag, parseOutcome(parseHeader(src), opts))
    /\ tgW' = NoWrite
    /\ tgLast' = OtherCall
    /\ UNCHANGED notTag

TagNext ==
    AddFrame \/ DeleteFrames \/ DeleteAllFrames \/ SetVersion \/ SetDefaultEncoding
    \/ TagWriteToStep \/ TagReset

(***************************************************************************)
(* One tag under AddFrame and DeleteFrames, with the call last made on it. *)
(***************************************************************************)
StoreFrameInputs ==
    {TextFrame(EncodingUTF8Key, <<97>>), TextFrame(EncodingISOKey, <<98>>),
     CommentFrame(EncodingISOKey, Eng, <<>>, <<97>>), UnknownFrame(<<1>>), NilFrame}

NoStoreCall == [op |-> "none", id |-> <<>>, f |-> NilFrame, had |-> FALSE, same |-> TRUE]

StoreInit ==
    /\ stTag = NewEmptyTag
    /\ stLast = NoStoreCall

\* tag.AddFrame(id, f)
StoreAddFrame ==
    /\ \E id \in TagIds \cup {<<>>} :
         \E f \in StoreFrameInputs :
            \E rnd \in RndChoices(f, TagGetFrames(stTag, id)) :
               /\ TagCount(TagAddFrame(stTag, id, f, rnd)) <= MaxTagFrames
               /\ stTag' = TagAddFrame(stTag, id, f, rnd)
               /\ stLast' = [op |-> "AddFrame", id |-> id, f |-> f,
                             had |-> TagGetFrames(stTag, id) # <<>>,
                             same |-> (TagAddFrame(stTag, id, f, rnd) = stTag)]
    /\ UNCHANGED notStore

\* tag.DeleteFrames(id)
StoreDeleteFrames ==
    /\ \E id \in TagIds :
          /\ stTag' = TagDeleteFrames(stTag, id)
          /\ stLast' = [op |-> "DeleteFrames", id |-> id, f |-> NilFrame,
                        had |-> TagGetFrames(stTag, id) # <<>>,
                        same |-> (TagDeleteFrames(stTag, id) = stTag)]
    /\ UNCHANGED notStore

StoreNext == StoreAddFrame \/ StoreDeleteFrames

(***************************************************************************)
(* One synchronised lyrics frame: WriteTo, then parseSynchronisedLyrics-   *)
(* Frame on the bytes written.                                             *)
(***************************************************************************)
MaxSyltTexts == 2

\* texts without a NUL: ASCII, Latin-1, a rune whose UTF-16 form ends in a zero
\* byte, and the empty text
SyltTextInputs == {<<>>, <<97>>, <<233>>, <<256>>}

SyltEntryInputs ==
    {[Text |-> t, Timestamp |-> ts] :
        t \in {<<97>>, <<256>>, <<>>}, ts \in {Zero64, FromNat(65793)}}

SyltInputs ==
    {SynchronisedLyricsFrame(enc, Eng, tsf, 1, desc, texts) :
        enc \in EncodingKeys, tsf \in {1, 2}, desc \in SyltTextInputs,
        texts \in SeqsUpTo(SyltEntryInputs, MaxSyltTexts)}

NotParsed == [panic |-> FALSE, err |-> "nil", frame |-> NoFrame]

SyltInit ==
    /\ slPc = "start"
    /\ slFrame = SynchronisedLyricsFrame(EncodingISOKey, Eng, 1, 1, <<>>, <<>>)
    /\ slOut = <<>>
    /\ slErr = "nil"
    /\ slParsed = NotParsed

\* n, err := sylf.WriteTo(buf), buf a bytes.Buffer
SyltWriteTo ==
    /\ slPc = "start"
    /\ \E f \in SyltInputs :
         LET r == WriteTo(f, NewBw) IN
         /\ slFrame' = f
         /\ slOut' = Received(r.bw)
         /\ slErr' = r.err
    /\ slPc' = "written"
    /\ UNCHANGED slParsed
    /\ UNCHANGED notSylt

\* parsedFrame, err := parseSynchronisedLyricsFrame(newBufferedReader(buf), 4)
SyltParse ==
    /\ slPc = "written"
    /\ slErr = "nil"
    /\ slParsed' = parseSynchronisedLyricsFrame(slOut)
    /\ slPc' = "parsed"
    /\ UNCHANGED <<slFrame, slOut, slErr>>
    /\ UNCHANGED notSylt

SyltRestart ==
    /\ slPc \in {"written", "parsed"}
    /\ slPc' = "start"
    /\ slFrame' = SynchronisedLyricsFrame(EncodingISOKey, Eng, 1, 1, <<>>, <<>>)
    /\ slOut' = <<>>
    /\ slErr' = "nil"
    /\ slParsed' = NotParsed
    /\ UNCHANGED notSylt

SyltNext == SyltWriteTo \/ SyltParse \/ SyltRestart

(***************************************************************************)
(* One frame body and the body parser parseFrameBody picks for its id:     *)
(* CHAP, COMM, USLT and SYLT.                                              *)
(***************************************************************************)
MaxSubframes == 3

CHAP == <<67, 72, 65, 80>>

USLT == <<85, 83, 76, 84>>

SYLT == <<83, 89, 76, 84>>

\* a subframe as writeFrame lays it out: id, size, two flag bytes, body
SubframeBytes(sub) == sub.id \o <<0, 0, 0, Len(sub.body), 0, 0>> \o sub.body

\* a title "T", a description "d" in UTF-8, a link "u", a picture of one byte with
\* MIME type "m", and a subframe parseChapterFrame has no parser for
SubframeChoices ==
    {[id |-> TitleFrameID, body |-> <<0, 84>>],
     [id |-> SubtitleRefinementFrameID, body |-> <<3, 100>>],
     [id |-> WXXX, body |-> <<0, 117>>],
     [id |-> APIC, body |-> <<0, 109, 0, 3, 0, 9>>],
     [id |-> XXXX, body |-> <<7>>]}

SubframeIds(subs) == {subs[i].id : i \in 1..Len(subs)}

\* up to MaxSubframes subframes, each id once
SubframeSeqs ==
    {s \in SeqsUpTo(SubframeChoices, MaxSubframes) :
        \A i, j \in 1..Len(s) : s[i] = s[j] => i = j}

\* element id "c", start and end time 1 and 2 ms, both offsets IgnoredOffset
ChapterFields ==
    <<99, 0>> \o <<0, 0, 0, 1>> \o <<0, 0, 0, 2>> \o <<255, 255, 255, 255>>
        \o <<255, 255, 255, 255>>

ChapterBody(subs, padding) ==
    ChapterFields \o Flatten([i \in 1..Len(subs) |-> SubframeBytes(subs[i])]) \o padding

\* nothing after the subframes, or ten bytes of padding
PaddingInputs == {<<>>, [i \in 1..frameHeaderSize |-> 0]}

\* the first three bytes of a subframe header: the body breaks off in it
CutHeader == SubSeq(TitleFrameID, 1, 3)

\* what the slice getByteSlice hands out may hold: zeros when it is new, or the
\* subframe header an earlier parse read into it last, here that of an unknown
\* frame of one byte or that of a title of two bytes
PooledSlices == StaleBufs \cup {FrameBytes(TitleFrameID, 2, 0)}

\* the capacity of the bytes.Buffer bbPool hands out: none for a buffer the pool
\* makes, and that of a buffer that held a text longer than the reader's buffer,
\* or longer than twice that
PooledBufferCaps == {0, 2 * defaultBufSize, 4 * defaultBufSize}

\* a version 4 frame as writeFrame lays it out
FrameOf(id, body) == id \o <<0, 0, Len(body) \div 128, Len(body) % 128, 0, 0>> \o body

LongPictureLen == 9000

LongLinkLen == 9000

LongerLinkLen == 12001

LongTailLen == 5000

LongerTailLen == 9000

\* subframes the reader's buffer does not hold at once: a picture of LongPictureLen
\* bytes with MIME type "m" and description "d", and links of LongLinkLen and
\* LongerLinkLen bytes in UTF-8, each with the bytes that follow it in the chapter
LongSubframes ==
    {[sub |-> [id |-> APIC, body |-> <<3, 109, 0, 3, 100, 0>> \o [i \in 1..LongPictureLen |-> 9]],
      tail |-> LongTailLen],
     [sub |-> [id |-> WXXX, body |-> <<3>> \o [i \in 1..(LongLinkLen - 1) |-> 117]],
      tail |-> LongTailLen],
     [sub |-> [id |-> WXXX, body |-> <<3>> \o [i \in 1..(LongerLinkLen - 1) |-> 117]],
      tail |-> LongerTailLen]}

LongChapterBody(l) == ChapterFields \o FrameOf(l.sub.id, l.sub.body) \o [i \in 1..l.tail |-> 7]

\* a version 4 chapter with one long subframe, parsed with a buffer of each capacity
LongChapterInputs ==
    {[data |-> LongChapterBody(l), version |-> 4, buf |-> [i \in 1..frameHeaderSize |-> 0],
      subs |-> <<l.sub>>, cap |-> c, caps |-> <<c>>] :
        l \in LongSubframes, c \in PooledBufferCaps}

\* a version 3 chapter whose title subframe declares 2^31 + 2 bytes and has two
LargeSubframeInput ==
    [data |-> ChapterFields \o TitleFrameID \o <<128, 0, 0, 2, 0, 0>> \o <<0, 84>>,
     version |-> 3, buf |-> [i \in 1..frameHeaderSize |-> 0],
     subs |-> <<[id |-> TitleFrameID, body |-> <<0, 84>>]>>, cap |-> 0, caps |-> <<>>]

\* the chapters of short subframes, parsed with buffers the pool makes; a chapter
\* whose body breaks off in a subframe header; and the long chapters
ChapterInputs ==
    {[data |-> ChapterBody(subs, padding), version |-> version, buf |-> buf, subs |-> subs,
      cap |-> 0, caps |-> <<>>] :
        subs \in SubframeSeqs, padding \in PaddingInputs, version \in {3, 4},
        buf \in StaleBufs}
    \cup {[data |-> ChapterBody(subs, CutHeader), version |-> 4, buf |-> buf, subs |-> subs,
           cap |-> 0, caps |-> <<>>] :
              subs \in {s \in SubframeSeqs : Len(s) <= 1}, buf \in PooledSlices}
    \cup LongChapterInputs
    \cup {LargeSubframeInput}

Prefixes(s) == {SubSeq(s, 1, n) : n \in 0..Len(s)}

LongDescriptionLen == 600

LongTextLen == 4000

\* a body in UTF-8 that the reader's buffer does not hold at once: "eng", a
\* description of LongDescriptionLen times "d", a text of LongTextLen times "t"
LongLanguageBody ==
    <<EncodingUTF8Key>> \o Eng \o [i \in 1..LongDescriptionLen |-> 100] \o <<0>>
        \o [i \in 1..LongTextLen |-> 116]

\* a comment or lyrics body in ISO-8859-1 or UTF-8: "eng", description "d", text
\* "t", and each body that breaks off earlier; and the long body
LanguageBodies ==
    UNION {Prefixes(<<enc>> \o Eng \o <<100>> \o TerminationBytes(enc) \o <<116>>) :
              enc \in {EncodingISOKey, EncodingUTF8Key}}
    \cup {LongLanguageBody}

\* a synchronised lyrics body: "eng", format 2, type 1, descriptor "d", the text "t"
\* at 257 ms, and each body that breaks off earlier
SyltBodies ==
    UNION {Prefixes(<<enc>> \o Eng \o <<2, 1, 100>> \o TerminationBytes(enc) \o <<116>>
                        \o TerminationBytes(enc) \o <<0, 0, 1, 1>>) :
              enc \in {EncodingISOKey, EncodingUTF8Key}}

BodyInput(data) ==
    [data |-> data, version |-> 4, buf |-> [i \in 1..frameHeaderSize |-> 0], subs |-> <<>>,
     cap |-> 0, caps |-> <<>>]

BodyInit ==
    /\ bdPc = "start"
    /\ bdParser = <<>>
    /\ bdInput = BodyInput(<<>>)
    /\ bdParsed = NotParsed

\* frame, err := parseChapterFrame(br, version), br a fresh reader over the body
ParseChapterBody ==
    /\ bdPc = "start"
    /\ \E in \in ChapterInputs :
         /\ bdInput' = in
         /\ bdParsed' = parseChapterFrame(in.data, in.version, in.buf, in.caps)
    /\ bdParser' = CHAP
    /\ bdPc' = "parsed"
    /\ UNCHANGED notBody

\* frame, err := parseCommentFrame(br, version)
ParseCommentBody ==
    /\ bdPc = "start"
    /\ \E data \in LanguageBodies :
         \E c \in PooledBufferCaps :
            /\ bdInput' = [BodyInput(data) EXCEPT !.cap = c, !.caps = <<c>>]
            /\ bdParsed' = parseCommentFrame(data, c)
    /\ bdParser' = COMM
    /\ bdPc' = "parsed"
    /\ UNCHANGED notBody

\* frame, err := parseUnsynchronisedLyricsFrame(br, version)
ParseUnsynchronisedLyricsBody ==
    /\ bdPc = "start"
    /\ \E data \in LanguageBodies :
         \E c \in PooledBufferCaps :
            /\ bdInput' = [BodyInput(data) EXCEPT !.cap = c, !.caps = <<c>>]
            /\ bdParsed' = parseUnsynchronisedLyricsFrame(data, c)
    /\ bdParser' = USLT
    /\ bdPc' = "parsed"
    /\ UNCHANGED notBody

\* frame, err := parseSynchronisedLyricsFrame(br, version)
ParseSynchronisedLyricsBody ==
    /\ bdPc = "start"
    /\ \E data \in SyltBodies :
         /\ bdInput' = BodyInput(data)
         /\ bdParsed' = parseSynchronisedLyricsFrame(data)
    /\ bdParser' = SYLT
    /\ bdPc' = "parsed"
    /\ UNCHANGED notBody

BodyRestart ==
    /\ bdPc = "parsed"
    /\ bdPc' = "start"
    /\ bdParser' = <<>>
    /\ bdInput' = BodyInput(<<>>)
    /\ bdParsed' = NotParsed
    /\ UNCHANGED notBody

BodyNext ==
    \/ ParseChapterBody
    \/ ParseCommentBody
    \/ ParseUnsynchronisedLyricsBody
    \/ ParseSynchronisedLyricsBody
    \/ BodyRestart
(***************************************************************************)
(* Chapter frames of independent tags parsed at the same time.  Each       *)
(* goroutine runs parseFrames on a tag of one chapter frame, from the      *)
(* getLimitedReader of the frame's body on; lrPool (pool.go) is the one    *)
(* thing the goroutines share by design.  Limited readers and              *)
(* bufferedReaders are objects with an identity; a Read is a stack of      *)
(* calls, and every access to an object that another goroutine can reach   *)
(* is a step of its own: io.LimitedReader.Read tests N, loads R and calls  *)
(* R.Read, loads N and stores N - n, and bufio.Reader.Read loads and       *)
(* stores b.r, b.w and b.err one at a time and copies from the memory of   *)
(* b.buf what lies between the r and the w it loaded.  The bytes a Read    *)
(* delivers are written where its p lies: into the buffer of the           *)
(* bufio.Reader that called for them, at the moment the innermost Read     *)
(* copies them; the copy of the bytes is one access.  ReadByte and ReadText *)
(* of a bufferedReader take their bytes as a Read of one byte does.  Each  *)
(* goroutine parses its first tag, so the buffer of its reader is new and  *)
(* what was never written into it reads as zero.  Accesses to objects no   *)
(* other goroutine can reach are taken together with the access before     *)
(* them.                                                                   *)
(***************************************************************************)
MaxLimitedReaders == 6

MaxBufioReaders == 6

\* how deep the Read calls of one goroutine nest before the runtime ends the program
\* with a stack overflow: a limited reader that reads a bufferedReader over itself
\* never returns
MaxCallDepth == 8

\* how many tags one goroutine parses
MaxParses == 1

Goroutines == {1, 2}

NilRef == [k |-> "nil", i |-> 0]

\* tag.reader of goroutine g
StreamRef(g) == [k |-> "stream", i |-> g]

\* the bufferedReader b
BufioRef(b) == [k |-> "bufio", i |-> b]

\* lrPool.New: new(io.LimitedReader)
NewLimitedReader == [R |-> NilRef, N |-> 0]

\* an id no bufferedReader has.  Of a bufio.Reader, src is the limited reader it
\* reads, buf the memory of its buffer as far as it was written, r, w and err
\* its fields b.r, b.w and b.err; the error of the bufferedReader around it is nil
\* as long as a Read is called on it, since a parser whose ReadByte or ReadText
\* failed returns
NoBufio == [src |-> 0, buf |-> <<>>, r |-> 0, w |-> 0, err |-> "nil"]

\* chapters of title and link subframes
PoolSubframeSeqs ==
    {s \in SubframeSeqs : SubframeIds(s) \subseteq {TitleFrameID, WXXX} /\ Len(s) <= 2}

\* the chapters parsed: goroutine 1 a link and a title after it, or fewer;
\* goroutine 2 one subframe
PoolChapters(g) ==
    IF g = 1 THEN {s \in PoolSubframeSeqs : Len(s) = 2 => s[1].id = WXXX}
    ELSE {s \in PoolSubframeSeqs : Len(s) = 1}

NoHeader == [err |-> "nil", id |-> <<>>, bodySize |-> Int64(0)]

\* a goroutine outside parseFrames that has parsed no tag yet.  stack holds the Read calls in flight, got the
\* bytes the body parser or binary.Read has so far, nums how many of the four
\* numbers are read, text whether the element id is still being read
Idle ==
    [pc |-> "idle", data |-> <<>>, br |-> NilRef, y |-> NilRef,
     buf |-> [i \in 1..frameHeaderSize |-> 0],
     h |-> NoHeader, bodyReader |-> 0, held |-> 0, replaced |-> FALSE, afterPut |-> FALSE,
     shared |-> FALSE, err |-> "nil", Title |-> ZeroTextFrame, Description |-> ZeroTextFrame,
     Link |-> ZeroLinkFrame, Artwork |-> ZeroPictureFrame,
     stack |-> <<>>, got |-> <<>>, nums |-> 0, text |-> TRUE, parses |-> 0]

PoolInit ==
    /\ plG = [g \in Goroutines |-> Idle]
    /\ plPos = [g \in Goroutines |-> 0]
    /\ plLr = <<>>
    /\ plFree = {}
    /\ plBr = [b \in 1..MaxBufioReaders |-> NoBufio]

\* a call in flight: l.Read(p) of the limited reader i, b.Read(p) of the
\* bufferedReader i, or Read(p) of the reader of goroutine i's tag; n = len(p),
\* dst the bufferedReader whose buffer p is the start of (0: p is memory of the
\* goroutine alone), m is len(p) after the limited reader cut it to N, n1 the N
\* loaded, a and b the b.r and b.w loaded as long as they are used, got and err
\* what the call it made returned, or the bytes it copied into p
Frame(k, i, n, dst, st) ==
    [k |-> k, i |-> i, n |-> n, dst |-> dst, m |-> 0, n1 |-> 0, a |-> 0, b |-> 0,
     got |-> <<>>, err |-> "nil", st |-> st]

\* rd.Read(p) is called, len(p) = n
CallFrame(rd, n, dst) ==
    IF rd.k = "stream" THEN Frame("stream", rd.i, n, dst, "read")
    ELSE IF rd.k = "lim" THEN Frame("lim", rd.i, n, dst, "test")
    ELSE Frame("bufio", rd.i, n, dst, "ldr")

Top(T) == T.stack[Len(T.stack)]

\* the part of parseFrames and parseChapterFrame a goroutine is in
Family(pc) ==
    CASE pc \in {"idle", "startN"} -> "start"
      [] pc = "fields" -> "fields"
      [] pc = "header" -> "header"
      [] pc \in {"text", "textN"} -> "textget"
      [] pc \in {"textbody", "textputN", "textputR"} -> "textbody"
      [] pc \in {"get", "getN"} -> "get"
      [] pc \in {"body", "bodyputN", "bodyputR"} -> "body"
      [] pc \in {"done", "doneR"} -> "return"
      [] OTHER -> "panic"

(***************************************************************************)
(* What a goroutine can reach.                                             *)
(***************************************************************************)
FramesOf(T, k) == {T.stack[j].i : j \in {x \in 1..Len(T.stack) : T.stack[x].k = k}}

RECURSIVE ReachClosure(_, _, _, _)
ReachClosure(L, B, lr, br) ==
    LET L2 == L \cup ({br[b].src : b \in B} \ {0})
        B2 == B \cup {lr[l].R.i : l \in {x \in L2 : x <= Len(lr) /\ lr[x].R.k = "bufio"}}
    IN  IF L2 = L /\ B2 = B THEN [L |-> L, B |-> B] ELSE ReachClosure(L2, B2, lr, br)

\* the limited readers and bufferedReaders the goroutine in T can reach
Reach(T, lr, br) ==
    ReachClosure(({T.bodyReader, T.held} \ {0}) \cup FramesOf(T, "lim"),
                 {r.i : r \in {x \in {T.br, T.y} : x.k = "bufio"}} \cup FramesOf(T, "bufio"),
                 lr, br)

\* the tag readers it can reach
ReachStreams(T, lr, br) ==
    {lr[l].R.i : l \in {x \in Reach(T, lr, br).L : x <= Len(lr) /\ lr[x].R.k = "stream"}}
        \cup FramesOf(T, "stream")

\* a configuration: the goroutine g as T, and the objects
Config(g) == [g |-> g, T |-> plG[g], lr |-> plLr, br |-> plBr, pos |-> plPos, free |-> plFree]

\* the call on top of the stack writes into the buffer p lies in
WritesBuffer(f) ==
    f.dst # 0 /\ ((f.k = "stream" /\ f.st = "read") \/ (f.k = "bufio" /\ f.st = "copy"))

\* the objects the next step of the goroutine accesses, none for a step that
\* accesses its own locals only
NextAccess(C) ==
    IF C.T.stack # <<>>
    THEN {[k |-> Top(C.T).k, i |-> Top(C.T).i]}
            \cup {[k |-> "bufio", i |-> Top(C.T).dst] : x \in {y \in {1} : WritesBuffer(Top(C.T))}}
    ELSE IF C.T.pc \in {"startN", "done", "doneR"} THEN {[k |-> "lim", i |-> C.T.bodyReader]}
    ELSE IF C.T.pc \in {"textN", "getN", "textputN", "textputR", "bodyputN", "bodyputR"}
    THEN {[k |-> "lim", i |-> C.T.held]}
    ELSE {}

\* another goroutine can reach the object, or take it from lrPool
ExposedObject(C, obj) ==
    \/ /\ obj.k = "lim" /\ obj.i \in C.free
       /\ \E h \in Goroutines \ {C.g} : plG[h].pc # "idle" \/ plG[h].parses < MaxParses
    \/ \E h \in Goroutines \ {C.g} :
          \/ obj.k = "lim" /\ obj.i \in Reach(plG[h], C.lr, C.br).L
          \/ obj.k = "bufio" /\ obj.i \in Reach(plG[h], C.lr, C.br).B
          \/ obj.k = "stream" /\ obj.i \in ReachStreams(plG[h], C.lr, C.br)

Exposed(C, objs) == \E obj \in objs : ExposedObject(C, obj)

(***************************************************************************)
(* The handlers: what parseChapterFrame does with what a Read returned.    *)
(***************************************************************************)
\* the function returns: its readers are locals
Done(T, err) ==
    [T EXCEPT !.pc = "done", !.err = err, !.br = NilRef, !.y = NilRef, !.got = <<>>,
              !.stack = <<>>]

\* br.ReadText(EncodingISO) byte by byte, then the four binary.Read, which return
\* the error br holds
HandleFields(T, b, err) ==
    IF T.text
    THEN IF err # "nil" THEN Done(T, "EOF")
         ELSE IF b = <<>> THEN T
         ELSE IF b[1] = 0 THEN [T EXCEPT !.text = FALSE] ELSE T
    ELSE IF err # "nil" THEN Done(T, IF T.got = <<>> THEN "EOF" ELSE "ErrUnexpectedEOF")
    ELSE IF Len(T.got \o b) < 4 THEN [T EXCEPT !.got = @ \o b]
    ELSE IF T.nums = 3 THEN [T EXCEPT !.got = <<>>, !.nums = 0, !.text = TRUE, !.pc = "header"]
    ELSE [T EXCEPT !.got = <<>>, !.nums = @ + 1]

\* the round of the loop goes on with the subframe whose header is h
PoolDispatch(T, h) ==
    IF h.err # "nil" THEN Done(T, "nil")
    ELSE IF h.id \in {TitleFrameID, SubtitleRefinementFrameID}
    THEN [T EXCEPT !.pc = "text", !.h = h]
    ELSE IF h.id \in {WXXX, APIC} THEN [T EXCEPT !.pc = "get", !.h = h]
    ELSE T

\* header, err := parseFrameHeader(buf, br, synchSafe) for version 4: the header
\* is made of what fhBuf holds, whatever the Read delivered without an error
HandleHeader(T, b, err) ==
    IF err # "nil" THEN Done(T, "nil")
    ELSE PoolDispatch([T EXCEPT !.buf = ReadInto(@, b), !.shared = @ \/ T.replaced],
                      parseFrameHeader(ReadInto(T.buf, b), TRUE))

\* the body parser read its reader to io.EOF: got is the body
HandleBody(T, b, err, frame, pc) ==
    IF err = "nil" THEN [T EXCEPT !.got = @ \o b]
    ELSE IF frame.err # "nil" THEN [T EXCEPT !.pc = pc, !.err = frame.err, !.got = <<>>]
    ELSE [SubframeAssigned(T, T.h.id, frame.frame) EXCEPT !.pc = pc, !.got = <<>>]

\* the Read a handler called returned the bytes b and err
Handle(T, b, err) ==
    CASE T.pc = "fields" -> HandleFields(T, b, err)
      [] T.pc = "header" -> HandleHeader(T, b, err)
      [] T.pc = "textbody" -> HandleBody(T, b, err, parseTextFrame(T.got), "textputN")
      [] T.pc = "body" -> HandleBody(T, b, err, SubframeParsed(T.h.id, T.got), "bodyputN")

(***************************************************************************)
(* One access of a Read in flight.                                         *)
(***************************************************************************)
\* where a call goes on when the call it made has returned
AfterCall(f) ==
    IF f.k = "lim" THEN "load"
    ELSE IF f.st = "fillwait" THEN "fillerr"
    ELSE "directerr"

\* the call on top of the stack returns the bytes b and err to its caller
Return(C, b, err) ==
    IF Len(C.T.stack) = 1 THEN [C EXCEPT !.T = Handle([C.T EXCEPT !.stack = <<>>], b, err)]
    ELSE [C EXCEPT !.T.stack =
             [j \in 1..(Len(C.T.stack) - 1) |->
                 IF j < Len(C.T.stack) - 1 THEN C.T.stack[j]
                 ELSE [C.T.stack[j] EXCEPT !.got = b, !.err = err,
                                           !.st = AfterCall(C.T.stack[j])]]]

\* a nil pointer is dereferenced, a slice is indexed outside its bounds, or the
\* stack is used up: the program ends, err is what the runtime reports
Panic(C, why) == [C EXCEPT !.T = [Done(C.T, why) EXCEPT !.pc = "panic"]]

\* the call on top of the stack goes on as f and calls rd.Read(p), len(p) = n, p
\* lying in the buffer of dst
Call(C, f, rd, n, dst) ==
    IF Len(C.T.stack) >= MaxCallDepth THEN Panic(C, "stack overflow")
    ELSE [C EXCEPT !.T.stack = [C.T.stack EXCEPT ![Len(C.T.stack)] = f]
                                   \o <<CallFrame(rd, n, dst)>>]

\* the call on top of the stack goes on as f
Goes(C, f) == [C EXCEPT !.T.stack[Len(C.T.stack)] = f]

\* the data tag.reader of goroutine g reads
DataOf(C, g) == IF g = C.g THEN C.T.data ELSE plG[g].data

\* io.LimitedReader.Read, one access of l.N or l.R at a time
LimitedRead(C, f) ==
    CASE f.st = "test" ->
            IF C.lr[f.i].N <= 0 THEN Return(C, <<>>, "EOF")
            ELSE Goes(C, [f EXCEPT !.m = Min2(f.n, C.lr[f.i].N), !.st = "call"])
      [] f.st = "call" ->
            IF C.lr[f.i].R.k = "nil" THEN Panic(C, "nil pointer dereference")
            ELSE Call(C, [f EXCEPT !.st = "wait"], C.lr[f.i].R, f.m, f.dst)
      [] f.st = "load" -> Goes(C, [f EXCEPT !.n1 = C.lr[f.i].N, !.st = "store"])
      [] f.st = "store" ->
            Return([C EXCEPT !.lr[f.i].N = f.n1 - Len(f.got)], f.got, f.err)

\* the bytes memory holds from lo to hi; what was never written is zero
MemRead(buf, lo, hi) == [j \in 1..(hi - lo) |-> IF lo + j <= Len(buf) THEN buf[lo + j] ELSE 0]

\* the bytes b were copied to the start of p
MemWritten(C, dst, b) ==
    IF dst = 0 \/ b = <<>> THEN C
    ELSE [C EXCEPT !.br[dst].buf = BufPut(@, 0, b)]

\* bufio.Reader.Read(p), len(p) = f.n, one access of b.r, b.w, b.err or of the
\* memory of b.buf at a time:
\*   ldr, ldw      if b.r == b.w
\*   lderr             if b.err != nil { return 0, b.readErr() }
\*   readerr, clrerr   readErr: err := b.err; b.err = nil; return err
\*   direct...         if len(p) >= len(b.buf) { n, b.err = b.rd.Read(p);
\*                         return n, b.readErr() }
\*   str0, stw0        b.r = 0; b.w = 0
\*   fill...           n, b.err = b.rd.Read(b.buf); if n == 0 { return 0, b.readErr() }
\*   ldw2, stw         b.w += n
\*   cpr, cpw, copy  n = copy(p, b.buf[b.r:b.w])
\*   ldr2, str       b.r += n
\*   last            b.lastByte = int(b.buf[b.r-1])
BufioRead(C, f) ==
    CASE f.st = "ldr" -> Goes(C, [f EXCEPT !.a = C.br[f.i].r, !.st = "ldw"])
      [] f.st = "ldw" ->
            Goes(C, [f EXCEPT !.a = 0, !.st = IF f.a = C.br[f.i].w THEN "lderr" ELSE "cpr"])
      [] f.st = "lderr" ->
            IF C.br[f.i].err # "nil" THEN Goes(C, [f EXCEPT !.got = <<>>, !.st = "readerr"])
            ELSE IF f.n >= defaultBufSize
            THEN Call(C, [f EXCEPT !.st = "directwait"],
                      [k |-> "lim", i |-> C.br[f.i].src], f.n, f.dst)
            ELSE Goes(C, [f EXCEPT !.st = "str0"])
      [] f.st = "clrerr" -> Return([C EXCEPT !.br[f.i].err = "nil"], f.got, f.err)
      [] f.st = "directerr" ->
            Goes([C EXCEPT !.br[f.i].err = f.err], [f EXCEPT !.st = "readerr"])
      [] f.st = "readerr" ->
            Goes(C, [f EXCEPT !.err = C.br[f.i].err, !.st = "clrerr"])
      [] f.st = "str0" -> Goes([C EXCEPT !.br[f.i].r = 0], [f EXCEPT !.st = "stw0"])
      [] f.st = "stw0" -> Goes([C EXCEPT !.br[f.i].w = 0], [f EXCEPT !.st = "fill"])
      [] f.st = "fill" ->
            Call(C, [f EXCEPT !.st = "fillwait"],
                 [k |-> "lim", i |-> C.br[f.i].src], defaultBufSize, f.i)
      [] f.st = "fillerr" ->
            Goes([C EXCEPT !.br[f.i].err = f.err],
                 [f EXCEPT !.m = Len(f.got), !.got = <<>>, !.err = "nil",
                           !.st = IF f.got = <<>> THEN "readerr" ELSE "ldw2"])
      [] f.st = "ldw2" -> Goes(C, [f EXCEPT !.b = C.br[f.i].w, !.st = "stw"])
      [] f.st = "stw" ->
            Goes([C EXCEPT !.br[f.i].w = f.b + f.m], [f EXCEPT !.b = 0, !.m = 0, !.st = "cpr"])
      [] f.st = "cpr" -> Goes(C, [f EXCEPT !.a = C.br[f.i].r, !.st = "cpw"])
      [] f.st = "cpw" ->
            IF f.a > C.br[f.i].w \/ C.br[f.i].w > defaultBufSize
            THEN Panic(C, "slice bounds out of range")
            ELSE Goes(C, [f EXCEPT !.b = C.br[f.i].w, !.st = "copy"])
      [] f.st = "copy" ->
            Goes(MemWritten(C, f.dst, MemRead(C.br[f.i].buf, f.a, f.a + Min2(f.n, f.b - f.a))),
                 [f EXCEPT !.got = MemRead(C.br[f.i].buf, f.a, f.a + Min2(f.n, f.b - f.a)),
                           !.a = 0, !.b = 0, !.st = "ldr2"])
      [] f.st = "ldr2" -> Goes(C, [f EXCEPT !.a = C.br[f.i].r, !.st = "str"])
      [] f.st = "str" ->
            Goes([C EXCEPT !.br[f.i].r = f.a + Len(f.got)], [f EXCEPT !.a = 0, !.st = "last"])
      [] f.st = "last" ->
            IF C.br[f.i].r < 1 \/ C.br[f.i].r > defaultBufSize
            THEN Panic(C, "index out of range")
            ELSE Return(C, f.got, "nil")

\* the Read of a tag's reader: the bytes, or io.EOF when none is left
StreamRead(C, f) ==
    Return(MemWritten([C EXCEPT !.pos[f.i] = Min2(@ + f.n, Len(DataOf(C, f.i)))], f.dst,
                   ReadAt(DataOf(C, f.i), C.pos[f.i], f.n)),
           ReadAt(DataOf(C, f.i), C.pos[f.i], f.n),
           IF ReadAt(DataOf(C, f.i), C.pos[f.i], f.n) = <<>> THEN "EOF" ELSE "nil")

\* the goroutine h as the configuration has it
ThreadOf(C, h) == IF h = C.g THEN C.T ELSE plG[h]

\* the bufferedReaders some goroutine or limited reader refers to
LiveBufio(C) ==
    UNION {{r.i : r \in {x \in {ThreadOf(C, h).br, ThreadOf(C, h).y} : x.k = "bufio"}}
             \cup FramesOf(ThreadOf(C, h), "bufio") : h \in Goroutines}
    \cup {C.lr[l].R.i : l \in {x \in 1..Len(C.lr) : C.lr[x].R.k = "bufio"}}

\* newBufferedReader: an id no live bufferedReader has
NewBufio(C) ==
    CHOOSE b \in 1..MaxBufioReaders :
        /\ b \notin LiveBufio(C)
        /\ \A c \in 1..(b - 1) : c \in LiveBufio(C)

\* r.N = n of getLimitedReader, and newBufferedReader(bodyReader) or br.Reset
GetN(C, l, n) == [C EXCEPT !.lr[l].N = n, !.br[NewBufio(C)] = [NoBufio EXCEPT !.src = l]]

\* r.R = nil; lrPool.Put(r)
PutBack(C, l) == [C EXCEPT !.lr[l].R = NilRef, !.free = @ \cup {l}]

\* one step of a goroutine that has no Read in flight and is not at lrPool.Get
HandlerStep(C) ==
    CASE C.T.pc = "startN" ->
            [GetN(C, C.T.bodyReader, Len(C.T.data)) EXCEPT
                !.T.pc = "fields", !.T.br = BufioRef(NewBufio(C))]
      [] C.T.pc = "fields" ->
            [C EXCEPT !.T.stack = <<CallFrame(C.T.br, IF C.T.text THEN 1 ELSE 4 - Len(C.T.got), 0)>>]
      [] C.T.pc = "header" ->
            [C EXCEPT !.T.stack = <<CallFrame(C.T.br, frameHeaderSize, 0)>>,
                      !.T.afterPut = @ \/ C.T.replaced]
      [] C.T.pc = "textN" ->
            [GetN(C, C.T.held, ToInt(C.T.h.bodySize)) EXCEPT
                !.T.pc = "textbody", !.T.y = BufioRef(NewBufio(C))]
      [] C.T.pc = "textbody" ->
            [C EXCEPT !.T.stack = <<CallFrame(C.T.y, MinRead, 0)>>]
      [] C.T.pc = "getN" ->
            [GetN(C, C.T.held, ToInt(C.T.h.bodySize)) EXCEPT
                !.T.pc = "body", !.T.br = BufioRef(NewBufio(C))]
      [] C.T.pc = "body" ->
            [C EXCEPT !.T.stack = <<CallFrame(C.T.br, MinRead, 0)>>]
      [] C.T.pc = "textputN" -> [C EXCEPT !.lr[C.T.held].N = 0, !.T.pc = "textputR"]
      [] C.T.pc = "bodyputN" -> [C EXCEPT !.lr[C.T.held].N = 0, !.T.pc = "bodyputR"]
      [] C.T.pc \in {"textputR", "bodyputR"} ->
            [PutBack(C, C.T.held) EXCEPT
                !.T = IF C.T.err # "nil" THEN [Done(C.T, C.T.err) EXCEPT !.held = 0]
                      ELSE [C.T EXCEPT !.pc = "header", !.held = 0, !.y = NilRef]]
      [] C.T.pc = "done" -> [C EXCEPT !.lr[C.T.bodyReader].N = 0, !.T.pc = "doneR"]
      [] C.T.pc = "doneR" ->
            [PutBack(C, C.T.bodyReader) EXCEPT !.T = [Idle EXCEPT !.parses = C.T.parses],
                                               !.pos[C.g] = 0]

\* one step of the goroutine
Micro(C) ==
    IF C.T.stack = <<>> THEN HandlerStep(C)
    ELSE IF Top(C.T).k = "lim" THEN LimitedRead(C, Top(C.T))
    ELSE IF Top(C.T).k = "bufio" THEN BufioRead(C, Top(C.T))
    ELSE StreamRead(C, Top(C.T))

\* the goroutine goes on within the part fam of the code up to its next access of
\* an object another goroutine can reach
RECURSIVE Run(_, _)
Run(C, fam) ==
    IF Family(C.T.pc) # fam \/ (C.T.stack = <<>> /\ C.T.pc \in {"idle", "text", "get"})
       \/ Exposed(C, NextAccess(C))
    THEN C
    ELSE Run(Micro(C), fam)

(***************************************************************************)
(* lrPool                                                                  *)
(***************************************************************************)
\* the limited readers a bufferedReader has as its source or a Read in flight reads
ReferredIn(C) ==
    {C.br[b].src : b \in LiveBufio(C)}
        \cup UNION {FramesOf(ThreadOf(C, h), "lim") : h \in Goroutines}

\* the limited readers of the pool that are still referred to
Referred == plFree \cap ReferredIn(Config(CHOOSE g \in Goroutines : TRUE))

\* what lrPool.Get() may return: a reader lying in the pool, or a new one.  The
\* readers in the pool that nothing refers to are as good as a new one, and one
\* of them stands for all
Gettable ==
    Referred
    \cup {l \in plFree \ Referred : \A k \in plFree \ Referred : l <= k}
    \cup {l \in {Len(plLr) + 1} : plFree \ Referred = {} /\ l <= MaxLimitedReaders}

\* the limited readers after Get returned l
WithReader(lr, l) == IF l > Len(lr) THEN Append(lr, NewLimitedReader) ELSE lr

\* r := lrPool.Get(); r.R = rd
GetR(C, l, rd) ==
    [C EXCEPT !.lr = [WithReader(C.lr, l) EXCEPT ![l].R = rd], !.free = @ \ {l}]

\* the program has not ended in a panic
Running == \A g \in Goroutines : plG[g].pc # "panic"

\* the step took the goroutine g to C; a bufferedReader nothing refers to is gone,
\* and a limited reader in the pool that nothing refers to is as good as a new one
PoolStep(g, C) ==
    /\ plG' = [plG EXCEPT ![g] = C.T]
    /\ plPos' = C.pos
    /\ plLr' = [l \in 1..Len(C.lr) |->
                   IF l \in C.free /\ l \notin ReferredIn(C) THEN NewLimitedReader ELSE C.lr[l]]
    /\ plFree' = C.free
    /\ plBr' = [b \in 1..MaxBufioReaders |-> IF b \in LiveBufio(C) THEN C.br[b] ELSE NoBufio]
    /\ UNCHANGED notPool

\* parseFrames has read the header of the chapter frame: bodyReader :=
\* getLimitedReader(tag.reader, bodySize); br.Reset(bodyReader)
PoolStart(g) ==
    /\ Running
    /\ Family(plG[g].pc) = "start"
    /\ IF plG[g].pc = "idle"
       THEN \E subs \in PoolChapters(g) :
               \E l \in Gettable :
                  /\ plG[g].parses < MaxParses
                  /\ PoolStep(g, Run(GetR([Config(g) EXCEPT
                                           !.T = [Idle EXCEPT !.pc = "startN",
                                                              !.data = ChapterBody(subs, <<>>),
                                                              !.bodyReader = l,
                                                              !.parses = plG[g].parses + 1],
                                           !.pos[g] = 0],
                                       l, StreamRef(g)), "start"))
       ELSE PoolStep(g, Run(Micro(Config(g)), "start"))

\* parseChapterFrame is entered and reads the element id and the four numbers
PoolFields(g) ==
    /\ Running
    /\ Family(plG[g].pc) = "fields"
    /\ PoolStep(g, Run(Micro(Config(g)), "fields"))

\* header, err := parseFrameHeader(buf, br, synchSafe) for version 4.  A br that
\* took the place of the reader given reads a limited reader that went back to
\* the pool
PoolHeader(g) ==
    /\ Running
    /\ Family(plG[g].pc) = "header"
    /\ PoolStep(g, Run(Micro(Config(g)), "header"))

\* a TIT2 or TIT3 subframe: bodyReader := getLimitedReader(br, bodySize);
\* newBufferedReader(bodyReader)
PoolTextGet(g) ==
    /\ Running
    /\ Family(plG[g].pc) = "textget"
    /\ IF plG[g].pc = "text"
       THEN \E l \in Gettable :
               PoolStep(g, Run(GetR([Config(g) EXCEPT !.T.pc = "textN", !.T.held = l],
                                    l, plG[g].br), "textget"))
       ELSE PoolStep(g, Run(Micro(Config(g)), "textget"))

\* parseTextFrame(newBufferedReader(bodyReader)), then putLimitedReader
PoolTextBody(g) ==
    /\ Running
    /\ Family(plG[g].pc) = "textbody"
    /\ PoolStep(g, Run(Micro(Config(g)), "textbody"))

\* a WXXX or APIC subframe: bodyReader := getLimitedReader(br, bodySize);
\* br = newBufferedReader(bodyReader)
PoolGet(g) ==
    /\ Running
    /\ Family(plG[g].pc) = "get"
    /\ IF plG[g].pc = "get"
       THEN \E l \in Gettable :
               PoolStep(g, Run(GetR([Config(g) EXCEPT !.T.pc = "getN", !.T.held = l],
                                    l, plG[g].br), "get"))
       ELSE PoolStep(g, Run(Micro(Config(g)), "get"))

\* parseLinkFrame(br) or parsePictureFrame(br, version), then putLimitedReader
PoolBody(g) ==
    /\ Running
    /\ Family(plG[g].pc) = "body"
    /\ PoolStep(g, Run(Micro(Config(g)), "body"))

\* parseChapterFrame has returned, and parseFrames returns: the deferred
\* putLimitedReader(bodyReader)
PoolReturn(g) ==
    /\ Running
    /\ Family(plG[g].pc) = "return"
    /\ PoolStep(g, Run(Micro(Config(g)), "return"))

PoolNext ==
    \E g \in Goroutines :
        \/ PoolStart(g)
        \/ PoolFields(g)
        \/ PoolHeader(g)
        \/ PoolTextGet(g)
        \/ PoolTextBody(g)
        \/ PoolGet(g)
        \/ PoolBody(g)
        \/ PoolReturn(g)

(***************************************************************************)
(* The tag header: ten bytes written by writeTagHeader, or ten bytes of    *)
(* any source, read by parseHeader.                                        *)
(***************************************************************************)
VersionBytes == {0, 2, 3, 4, 5, 255}

\* the sizes handed to writeTagHeader: four 7-bit chunks, and a bit above them or not
HeaderSizes ==
    {ToNat(FromChunks(synchSafeSizeBase, c, hi)) :
        c \in [1..id3SizeLen -> ChunkChoices(synchSafeSizeBase)], hi \in {0, 1}}

\* the headers read that no writeTagHeader wrote
GivenHeaders ==
    {prefix \o <<version, revision, flags>> \o size :
        prefix \in {id3Identifier, <<73, 68, 50>>}, version \in {3, 4},
        revision \in {0, 1, 255}, flags \in {0, 128, 255},
        size \in [1..id3SizeLen -> {0, 119, 128}]}

NotWritten == [written |-> FALSE, framesSize |-> 0, version |-> 0]

HeaderInit ==
    /\ hdPc = "start"
    /\ hdArgs = NotWritten
    /\ hdBytes = <<>>
    /\ hdHeader = HeaderOf(0, 0, "nil")

\* writeTagHeader(bw, framesSize, version) and bw.Flush() into an empty buffer
WriteTagHeaderStep ==
    /\ hdPc = "start"
    /\ \E framesSize \in HeaderSizes, version \in VersionBytes :
         /\ hdArgs' = [written |-> TRUE, framesSize |-> framesSize, version |-> version]
         /\ hdBytes' = Received(BwFlush(RunOps(NewBw, writeTagHeaderOps(framesSize, version)).bw))
    /\ hdPc' = "written"
    /\ UNCHANGED hdHeader
    /\ UNCHANGED notHeader

\* a source that starts with ten bytes of its own
GiveHeaderStep ==
    /\ hdPc = "start"
    /\ hdBytes' \in GivenHeaders
    /\ hdPc' = "written"
    /\ UNCHANGED <<hdArgs, hdHeader>>
    /\ UNCHANGED notHeader

\* parseHeader(bytes.NewReader(hdBytes))
ParseHeaderStep ==
    /\ hdPc = "written"
    /\ hdHeader' = parseHeader(hdBytes)
    /\ hdPc' = "parsed"
    /\ UNCHANGED <<hdArgs, hdBytes>>
    /\ UNCHANGED notHeader

HeaderRestart ==
    /\ hdPc = "parsed"
    /\ hdPc' = "start"
    /\ hdArgs' = NotWritten
    /\ hdBytes' = <<>>
    /\ hdHeader' = HeaderOf(0, 0, "nil")
    /\ UNCHANGED notHeader

HeaderNext ==
    \/ WriteTagHeaderStep
    \/ GiveHeaderStep
    \/ ParseHeaderStep
    \/ HeaderRestart
(***************************************************************************)
(* The frame scan as a reader of its source: how many bytes each round of  *)
(* the loop of parseFrames takes from tag.reader.  A skipped frame is read *)
(* through a limited reader into buf, one Read of skipReaderBuf at a time; *)
(* a parsed frame is read by the parser parseFrameBody picks for its id,   *)
(* through br, a bufio.Reader of defaultBufSize bytes over a limited       *)
(* reader, which takes from tag.reader what it buffers.                    *)
(***************************************************************************)
LongBodyLen == 4200

\* a version 4 tag and what follows it in the file
TagOf(frames) ==
    id3Identifier \o <<4, 0, 0, 0, 0, Len(frames) \div 128, Len(frames) % 128>> \o frames \o Audio

\* after the subframes of a chapter: nothing, ten bytes of padding, or padding
\* that makes the body LongBodyLen bytes long
StreamPaddings(subs) ==
    PaddingInputs \cup {[i \in 1..(LongBodyLen - Len(ChapterBody(subs, <<>>))) |-> 0]}

POPM == <<80, 79, 80, 77>>

\* bodies of the frames that have a parser in the parsers map, a body that breaks
\* off where its parser reads on, and a body longer than the buffer of br: a
\* picture, comments, lyrics, synchronised lyrics with and without the last byte
\* of the timestamp, a popularimeter, user-defined texts and file identifiers
ParserFrames ==
    {FrameOf(APIC, <<0, 109, 0, 3, 0, 9>>),
     FrameOf(COMM, <<0>>),
     FrameOf(COMM, <<0>> \o Eng \o <<100, 0, 116>>),
     FrameOf(COMM, LongLanguageBody),
     FrameOf(USLT, <<3>> \o Eng \o <<100, 0, 116>>),
     FrameOf(SYLT, <<0>> \o Eng \o <<2, 1, 100, 0, 116, 0, 0, 0, 1, 1>>),
     FrameOf(SYLT, <<0>> \o Eng \o <<2, 1, 100, 0, 116, 0, 0, 0, 1>>),
     FrameOf(POPM, <<101, 0, 5, 0, 1>>),
     FrameOf(UserDefinedTextFrameID, <<0, 100, 0, 118>>),
     FrameOf(UserDefinedTextFrameID, <<0, 100>>),
     FrameOf(UFID, <<111, 0, 1>>),
     FrameOf(UFID, <<111>>)}

\* the frame the scan meets first: a chapter, among them one that breaks off in a
\* subframe header and one with a long link, a frame of the parsers map, or a frame
\* without a parser
FirstFrames ==
    UNION {{FrameOf(CHAP, ChapterBody(subs, padding)) : padding \in StreamPaddings(subs)} :
              subs \in {s \in SubframeSeqs : Len(s) <= 1}}
    \cup {FrameOf(CHAP, ChapterBody(<<>>, CutHeader))}
    \cup {FrameOf(CHAP, LongChapterBody(l)) :
              l \in {x \in LongSubframes : x.sub.id = WXXX /\ x.tail = LongTailLen}}
    \cup ParserFrames
    \cup {FrameOf(XXXX, <<7>>), FrameOf(XXXX, [i \in 1..LongBodyLen |-> 7])}

\* the frame that follows it, if there is one: the title "T"
SecondFrames == {<<>>, FrameOf(TitleFrameID, <<0, 84>>)}

StreamSources == {TagOf(first \o second) : first \in FirstFrames, second \in SecondFrames}

\* opts.ParseFrames as frame ids: none, the title, and the title with the chapter
StreamIds == {{}, {TitleFrameID}, {TitleFrameID, CHAP}}

StreamInit ==
    /\ skPc = "idle"
    /\ skSrc = <<>>
    /\ skPos = 0
    /\ skFramesSize = Int64(0)
    /\ skIds = {}
    /\ skProvided = FALSE
    /\ skLimit = Int64(0)
    /\ skBuf = [i \in 1..frameHeaderSize |-> 0]
    /\ skLog = <<>>
    /\ skErr = "nil"

\* parse has read the tag header of a version 4 tag; parseFrames starts
StreamOpen ==
    /\ skPc = "idle"
    /\ \E src \in StreamSources, ids \in StreamIds :
         /\ skSrc' = src
         /\ skIds' = ids
         /\ skProvided' = (ids # {})
         /\ skFramesSize' = Int64(parseHeader(src).size)
    /\ skPos' = tagHeaderSize
    /\ skPc' = "frames"
    /\ skLog' = <<>>
    /\ skErr' = "nil"
    /\ UNCHANGED <<skBuf, skLimit>>
    /\ UNCHANGED notStream

\* what a body parser did with br over body: the error, a panic being kept as an
\* error of its own, and how many bytes br took from bodyReader
BodyOutcome(body, err, panic, left) ==
    [err |-> IF panic THEN "panic" ELSE err, taken |-> Len(body) - left]

LanguageBodyOutcome(body, x) == BodyOutcome(body, x.err, x.panic, x.left)

PlainBodyOutcome(body, x) == BodyOutcome(body, x.err, FALSE, x.left)

ChapterBodyOutcome(x) == [err |-> x.err, taken |-> x.taken]

\* frame, err := parseFrameBody(id, br, tag.version), br reset to a limited reader
\* over body; slice is what the slice bsPool hands the parser holds, and caps the
\* capacities of the buffers bbPool hands it
BodyParsed(id, body, slice, caps) ==
    IF id[1] = 84 /\ id # UserDefinedTextFrameID
    THEN BodyOutcome(body, parseTextFrame(body).err, FALSE, TextBodyLeft(body, NextCap(caps)))
    ELSE IF id = APIC THEN PlainBodyOutcome(body, parsePictureFrame(body))
    ELSE IF id = CHAP THEN ChapterBodyOutcome(parseChapterFrame(body, 4, slice, caps))
    ELSE IF id = COMM THEN LanguageBodyOutcome(body, parseCommentFrame(body, NextCap(caps)))
    ELSE IF id = POPM THEN PlainBodyOutcome(body, parsePopularimeterFrame(body))
    ELSE IF id = SYLT THEN LanguageBodyOutcome(body, parseSynchronisedLyricsFrame(body))
    ELSE IF id = UserDefinedTextFrameID
    THEN PlainBodyOutcome(body, parseUserDefinedTextFrame(body, NextCap(caps)))
    ELSE IF id = UFID THEN PlainBodyOutcome(body, parseUFIDFrame(body))
    ELSE IF id = USLT
    THEN LanguageBodyOutcome(body, parseUnsynchronisedLyricsFrame(body, NextCap(caps)))
    ELSE PlainBodyOutcome(body, parseUnknownFrame(body))

\* the loop is left with err
StreamReturn(err) ==
    /\ skPc' = "done"
    /\ skErr' = err

\* the round of the loop that read the header h at skPos, read bytes of it, and
\* parsed the frame: an error that is not io.EOF, or a panic, is what parseFrames
\* ends with; else the frame is added and its id, when it is kept one per tag, is
\* no longer looked for
StreamParsed(h, read, p, left) ==
    /\ skPos' = skPos + read + p.taken
    /\ skFramesSize' = left
    /\ skLog' = Append(skLog, [at |-> skPos, err |-> "nil", id |-> h.id, bodySize |-> h.bodySize,
                               next |-> skPos + read + p.taken])
    /\ UNCHANGED skLimit
    /\ IF p.err \notin {"nil", "EOF"}
       THEN /\ StreamReturn(p.err)
            /\ UNCHANGED skIds
       ELSE /\ skIds' = parseableAfter(skIds, h.id, skProvided)
            /\ IF skProvided /\ ~mustFrameBeInSequence(h.id) /\ skIds' = {}
               THEN StreamReturn("nil")
               ELSE IF p.err = "EOF" THEN StreamReturn("nil")
               ELSE UNCHANGED <<skPc, skErr>>

\* one round of the loop after the Read of the header delivered read bytes into
\* fhBuf; a body that is not looked for is left to the loop of skipReaderBuf, and
\* the parser of one that is gets from the pools what they happen to hold
StreamFrameOf(fhBuf, read, h, left) ==
    IF h.err # "nil"
    THEN /\ StreamReturn("nil")
         /\ skBuf' = fhBuf
         /\ skPos' = skPos + read
         /\ skLog' = Append(skLog, [at |-> skPos, err |-> h.err, id |-> h.id,
                                    bodySize |-> h.bodySize, next |-> skPos + read])
         /\ UNCHANGED <<skFramesSize, skIds, skLimit>>
    ELSE IF Int64Less(left, Int64(0))
    THEN /\ StreamReturn("ErrBodyOverflow")
         /\ skBuf' = fhBuf
         /\ skPos' = skPos + read
         /\ skFramesSize' = left
         /\ skLog' = Append(skLog, [at |-> skPos, err |-> "ErrBodyOverflow", id |-> h.id,
                                    bodySize |-> h.bodySize, next |-> skPos + read])
         /\ UNCHANGED <<skIds, skLimit>>
    ELSE IF skProvided /\ h.id \notin skIds
    THEN /\ skPc' = "skip"
         /\ skLimit' = h.bodySize
         /\ skBuf' = fhBuf
         /\ skPos' = skPos + read
         /\ skFramesSize' = left
         /\ skLog' = Append(skLog, [at |-> skPos, err |-> "nil", id |-> h.id,
                                    bodySize |-> h.bodySize, next |-> skPos + read])
         /\ UNCHANGED <<skIds, skErr>>
    ELSE /\ skBuf' = fhBuf
         /\ \E slice \in PooledSlices, c \in PooledBufferCaps :
               StreamParsed(h, read,
                            BodyParsed(h.id, ReadAt(skSrc, skPos + read, ToInt(h.bodySize)),
                                       slice, <<c>>),
                            left)

\* one round of the loop of parseFrames
StreamFrame ==
    /\ skPc = "frames"
    /\ IF ~Int64Less(Int64(0), skFramesSize) \/ skPos >= Len(skSrc)
       THEN /\ StreamReturn("nil")
            /\ UNCHANGED <<skPos, skFramesSize, skIds, skBuf, skLog, skLimit>>
       ELSE \E fhBuf \in {ReadInto(skBuf, ReadAt(skSrc, skPos, frameHeaderSize))} :
               \E h \in {parseFrameHeader(fhBuf, TRUE)} :
                  StreamFrameOf(fhBuf, Len(ReadAt(skSrc, skPos, frameHeaderSize)), h,
                                framesSizeAfter(skFramesSize, h.bodySize))
    /\ UNCHANGED <<skSrc, skProvided>>
    /\ UNCHANGED notStream

\* the frame header read last, with next the place the source is read at
LogNext(log, next) == [log EXCEPT ![Len(log)].next = next]

\* one round of the loop of skipReaderBuf: _, err := rd.Read(buf), rd the limited
\* reader over tag.reader; io.EOF ends the loop and the frame scan goes on
StreamSkipRead(got) ==
    IF ~Int64Less(Int64(0), skLimit) \/ got = <<>>
    THEN /\ skPc' = "frames"
         /\ UNCHANGED <<skBuf, skPos, skLimit, skLog>>
    ELSE /\ skBuf' = ReadInto(skBuf, SubSeq(got, 1, Min2(Len(got), frameHeaderSize)))
         /\ skPos' = skPos + Len(got)
         /\ skLimit' = Int64Sub(skLimit, Int64(Len(got)))
         /\ skLog' = LogNext(skLog, skPos + Len(got))
         /\ UNCHANGED skPc

StreamSkip ==
    /\ skPc = "skip"
    /\ \E got \in {ReadAt(skSrc, skPos, AtMost(skLimit, defaultBufferSize))} :
          StreamSkipRead(got)
    /\ UNCHANGED <<skSrc, skFramesSize, skIds, skProvided, skErr>>
    /\ UNCHANGED notStream

\* the tag is let go
StreamDrop ==
    /\ skPc = "done"
    /\ skPc' = "idle"
    /\ skSrc' = <<>>
    /\ skPos' = 0
    /\ skFramesSize' = Int64(0)
    /\ skIds' = {}
    /\ skProvided' = FALSE
    /\ skLimit' = Int64(0)
    /\ skLog' = <<>>
    /\ skErr' = "nil"
    /\ UNCHANGED skBuf
    /\ UNCHANGED notStream

StreamNext == StreamOpen \/ StreamFrame \/ StreamSkip \/ StreamDrop
(***************************************************************************)
(* Specifications: each exercises one part of the library and holds the    *)
(* others at rest.                                                         *)
(***************************************************************************)
Init == SizeInit /\ FrameInit /\ SeqInit /\ TagInit /\ SaveInit /\ ParseInit /\ StoreInit /\ SyltInit
        /\ BodyInit /\ PoolInit /\ HeaderInit /\ StreamInit

SpecSize == Init /\ [][SizeNext]_vars

SpecFrame == Init /\ [][FrameNext]_vars

SpecSeq == Init /\ [][SeqNext]_vars

SpecTag == Init /\ [][TagNext]_vars

SpecSave == Init /\ [][SaveNext]_vars

SpecParse == Init /\ [][ParseNext]_vars

SpecStore == Init /\ [][StoreNext]_vars

SpecSylt == Init /\ [][SyltNext]_vars

SpecBody == Init /\ [][BodyNext]_vars

SpecPool == Init /\ [][PoolNext]_vars

SpecHeader == Init /\ [][HeaderNext]_vars

\* tags parsed by ParseReader one after the other; the loop of parseFrames runs on:
\* no round of it is put off for ever
ScanNext ==
    ParseReader \/ ParseStalling \/ ParseFrame \/ ParseSkip \/ ParseReadAll \/ ParseDrop

SpecScan == Init /\ [][ScanNext]_vars /\ WF_vars(ParseFrame) /\ WF_vars(ParseSkip)

SpecStream == Init /\ [][StreamNext]_vars
(***************************************************************************)
(* C1: size codec round trip.  For every size below 2^28 written in        *)
(* synch-safe mode and every size below 2^32 written in raw mode,          *)
(* parseSize with the same mode on the 4 bytes written returns the size    *)
(* and no error; 15351 is written as 0,0,0x77,0x77 in synch-safe mode.     *)
(***************************************************************************)
InRange(size, synchSafe) ==
    ~Gt(size, IF synchSafe THEN synchSafeMaxSize ELSE synchUnsafeMaxSize)

C1_RoundTrip ==
    /\ (szPc = "written" /\ InRange(szSize, szSynchSafe))
          => (szWErr = "nil" /\ Len(szOut) = 4)
    /\ (szPc = "parsed")
          => (szPErr = "nil" /\ szParsed = szSize)
    /\ (szPc = "written" /\ szSynchSafe /\ szSize = FromNat(15351))
          => szOut = <<0, 0, 119, 119>>

\* a raw size with its top bit set (>= 2^31) and a synch-safe size using all
\* four chunks have both been written and read back
C1_Witness ==
    /\ szPc = "parsed"
    /\ szParsed = szSize
    /\ \/ (~szSynchSafe /\ szSize[32] = 1 /\ szSize[1] = 1)
       \/ (szSynchSafe /\ szSize[28] = 1 /\ szSize[1] = 1)


\* size does not fit in the given number of bits
Exceeds(size, bits) == \E i \in (bits + 1)..UintBits : size[i] = 1

\* some byte of data has its most significant bit set
HasTopBit(data) == \E i \in 1..Len(data) : data[i] >= 128

\* the number four 7-bit bytes stand for
SevenBitValue(data) == ((data[1] * 128 + data[2]) * 128 + data[3]) * 128 + data[4]

\* C13: parseSize in synch-safe mode returns ErrInvalidSizeFormat for every 4-byte
\* input in which some byte has its top bit set, and returns the 28-bit value for
\* every 4-byte input with all top bits clear; in raw mode it rejects no 4-byte
\* input.
C13_TopBitRejected ==
    (szPc = "decoded" /\ Len(szOut) = id3SizeLen) =>
        IF szSynchSafe
        THEN IF HasTopBit(szOut)
             THEN szPErr = "ErrInvalidSizeFormat"
             ELSE szPErr = "nil" /\ szParsed = FromNat(SevenBitValue(szOut))
        ELSE szPErr = "nil"

\* the raw encoding 0,0,0xFF,0xFF of 65535 was refused in synch-safe mode
C13_RawEncodingRefused ==
    /\ szPc = "decoded"
    /\ szSynchSafe
    /\ szOut = <<0, 0, 255, 255>>
    /\ szPErr = "ErrInvalidSizeFormat"

\* C14: writeBytesSize returns ErrSizeOverflow and writes no byte when the size is
\* above 2^28 - 1 in synch-safe mode or above 2^32 - 1 in raw mode; for a size in
\* range it writes exactly 4 bytes and returns no error, and in synch-safe mode no
\* byte written has its top bit set.
C14_OverflowWritesNothing ==
    szPc = "written" =>
        IF Exceeds(szSize, IF szSynchSafe THEN 28 ELSE 32)
        THEN szWErr = "ErrSizeOverflow" /\ szOut = <<>>
        ELSE /\ szWErr = "nil"
             /\ Len(szOut) = id3SizeLen
             /\ szSynchSafe => ~HasTopBit(szOut)

\* a size of 2^28 and more that fits in 32 bits was refused in synch-safe mode
C14_SynchSafeOverflow ==
    /\ szPc = "written"
    /\ szSynchSafe
    /\ Exceeds(szSize, 28)
    /\ ~Exceeds(szSize, 32)
    /\ szWErr = "ErrSizeOverflow"
    /\ szOut = <<>>
(***************************************************************************)
(* C4: for every frame variant, a WriteTo that succeeds emits exactly the  *)
(* number of bytes Size() reports (and returns that count), a UFID frame   *)
(* with a non-ASCII owner and UTF-16 text included.                        *)
(***************************************************************************)
C4_WriteToEmitsSize ==
    (frPc = "written" /\ ~frPanic /\ frErr = "nil") =>
        (~frSize.panic /\ Len(frOut) = frSize.n /\ frN = frSize.n)

\* the same, for every variant but UFIDFrame
C4_OtherVariantsEmitSize ==
    (frPc = "written" /\ ~frPanic /\ frErr = "nil" /\ frFrame.kind # "UFIDFrame") =>
        (~frSize.panic /\ Len(frOut) = frSize.n /\ frN = frSize.n)

\* a UFID frame whose owner is Latin-1 but not ASCII has been sized and written
C4_UfidLatin1Written ==
    /\ frPc = "written"
    /\ frFrame.kind = "UFIDFrame"
    /\ frFrame.OwnerIdentifier = <<233>>
    /\ ~frPanic
    /\ frErr = "nil"
    /\ ~frSize.panic
    /\ Len(frOut) = frSize.n + 1


\* C23: WriteTo of a comment, unsynchronised lyrics or synchronised lyrics frame
\* whose Language is not 3 bytes long returns ErrInvalidLanguageLength and the
\* count 0 and hands no byte to the writer; with a Language of 3 bytes it never
\* returns ErrInvalidLanguageLength.
C23_LanguageLengthChecked ==
    (frPc = "written" /\ HasLanguage(frFrame)) =>
        IF Len(StrBytes(frFrame.Language)) # 3
        THEN frErr = "ErrInvalidLanguageLength" /\ frN = 0 /\ frOut = <<>>
        ELSE frErr # "ErrInvalidLanguageLength"

\* a comment with the language "en" was refused
C23_TwoLetterLanguageRefused ==
    /\ frPc = "written"
    /\ frFrame.kind = "CommentFrame"
    /\ frFrame.Language = <<101, 110>>
    /\ frErr = "ErrInvalidLanguageLength"
    /\ frN = 0

\* lyrics whose language is two letters in three bytes were written
C23_ThreeByteLanguageWritten ==
    /\ frPc = "written"
    /\ frFrame.kind = "UnsynchronisedLyricsFrame"
    /\ frFrame.Language = <<233, 101>>
    /\ frErr = "nil"
    /\ frN = Len(frOut)
    /\ frN > 3

\* a chapter whose description cannot be sized: WriteTo panics after the WriteTo of
\* the title has flushed the chapter's fields and the title to the writer
C4_PanicAfterTitleFlushed ==
    /\ frPanic
    /\ frFrame.kind = "ChapterFrame"
    /\ frFrame.Title # <<>>
    /\ Len(frOut) >= Len(frFrame.ElementID) + 1 + 16 + frameHeaderSize
(***************************************************************************)
(* C2: sequence.AddFrame(f) replaces, at its index, the first entry whose  *)
(* identity key equals f's, leaving the length and every other entry as    *)
(* they were; when no entry's key equals f's it appends f and the length   *)
(* grows by exactly one.                                                   *)
(***************************************************************************)
KeysEqual(f, ff, draw) == UniqueIdentifier(f, draw[1]) = UniqueIdentifier(ff, draw[2])

C2_AddFrameReplacesOrAppends ==
    sqLast.op = "AddFrame" =>
        LET f      == sqLast.f
            before == sqLast.before
            hits   == {i \in 1..Len(before) : KeysEqual(f, before[i], sqLast.rnd[i])}
        IN  IF hits # {}
            THEN LET i == CHOOSE k \in hits : \A j \in hits : k <= j IN
                 /\ Len(sqFrames) = Len(before)
                 /\ sqFrames[i] = f
                 /\ \A j \in 1..Len(before) : j # i => sqFrames[j] = before[j]
            ELSE /\ Len(sqFrames) = Len(before) + 1
                 /\ sqFrames[Len(sqFrames)] = f
                 /\ \A j \in 1..Len(before) : sqFrames[j] = before[j]

\* a frame replaced the middle one of three, which held other content
C2_ReplacedInTheMiddle ==
    /\ sqLast.op = "AddFrame"
    /\ Len(sqLast.before) = 3
    /\ Len(sqFrames) = 3
    /\ sqFrames[2] = sqLast.f
    /\ sqLast.before[2] # sqLast.f
    /\ sqFrames[1] = sqLast.before[1]
    /\ sqFrames[3] = sqLast.before[3]

(***************************************************************************)
(* C3: Tag.AddFrame keeps a frame in the singular map, so that an id never *)
(* holds more than one frame, for every id starting with 'T' other than    *)
(* TXXX, for the ids MCDI, ETCO, SYTC, RVRB, MLLT, PCNT, RBUF, POSS, OWNE, *)
(* SEEK, ASPI, and for IPLS and RVAD; every other id goes to the sequence  *)
(* store.                                                                  *)
(***************************************************************************)
SingularIds == {MCDI, ETCO, SYTC, RVRB, MLLT, PCNT, RBUF, POSS, OWNE, SEEK, ASPI, IPLS, RVAD}

SingularByRule(id) == (HasPrefixT(id) /\ id # UserDefinedTextFrameID) \/ id \in SingularIds

C3_Routing ==
    \A id \in TagIds :
        /\ SingularByRule(id) =>
              (id \notin DOMAIN tgTag.sequences /\ Len(TagGetFrames(tgTag, id)) <= 1)
        /\ ~SingularByRule(id) => id \notin DOMAIN tgTag.frames

\* two AddFrame calls with the id MCDI have left two frames under it
C3_TwoFramesUnderMCDI ==
    /\ MCDI \in DOMAIN tgTag.sequences
    /\ Len(TagGetFrames(tgTag, MCDI)) = 2

(***************************************************************************)
(* C5: for a tag holding at least one frame, all of whose frames write     *)
(* successfully, Tag.WriteTo emits exactly Tag.Size() = 10 + the sum over  *)
(* the stored frames of (10 + frame.Size()) bytes and returns that number; *)
(* the size field of the tag header decodes, synch-safe, to Size() - 10;   *)
(* every frame header's size field is synch-safe exactly when the version  *)
(* is 4.                                                                   *)
(***************************************************************************)
RECURSIVE SumSeq(_)
SumSeq(s) == IF s = <<>> THEN 0 ELSE Head(s) + SumSeq(Tail(s))

FrameCosts(order) == [i \in 1..Len(order) |-> frameHeaderSize + Size(order[i][2])]

\* where the header of the i-th frame written starts, counting from 0
HeaderOffset(order, i) == tagHeaderSize + SumSeq(SubSeq(FrameCosts(order), 1, i - 1))

FrameHeaderAsClaimed(out, order, i, version) ==
    LET off  == HeaderOffset(order, i)
        size == SubSeq(out, off + 5, off + 8)
    IN  off + frameHeaderSize <= Len(out) =>
           /\ SubSeq(out, off + 1, off + 4) = order[i][1]
           /\ parseSize(size, version = 4) =
                 [size |-> FromNat(Size(order[i][2])), err |-> "nil"]
           /\ version = 4 => \A k \in 1..4 : size[k] < 128

C5_WriteToEmitsTagSize ==
    (tgW.done /\ TagHasFrames(tgTag) /\ ~tgW.panic /\ tgW.err = "nil") =>
        LET total == tagHeaderSize + SumSeq(FrameCosts(tgW.order)) IN
        /\ TagSize(tgTag) = total
        /\ Len(tgW.out) = total
        /\ tgW.n = total
        /\ parseSize(SubSeq(tgW.out, 7, 10), TRUE) =
              [size |-> FromNat(total - tagHeaderSize), err |-> "nil"]
        /\ \A i \in 1..Len(tgW.order) :
              FrameHeaderAsClaimed(tgW.out, tgW.order, i, tgTag.version)

\* a tag holding a UFID frame with a Latin-1 owner was written without error
C5_WroteUfidLatin1 ==
    /\ tgW.done
    /\ tgW.err = "nil"
    /\ ~tgW.panic
    /\ \E i \in 1..Len(tgW.order) :
          /\ tgW.order[i][2].kind = "UFIDFrame"
          /\ tgW.order[i][2].OwnerIdentifier = <<233>>
    /\ Len(tgW.out) = TagSize(tgTag) + 1

(***************************************************************************)
(* Claims about Tag.Save                                                   *)
(***************************************************************************)
\* a Save call has returned and nothing was done to the tag since
Returned == svPc = "idle" /\ svCall.ret \notin {"none", "pending"}

\* the steps of Save before the rename
StepsBeforeRename == {"stat", "create", "write", "seek", "copy"}

\* the errors the step can fail with
ErrorsOf(step) ==
    IF step = "write" THEN {"write", "ErrInvalidLanguageLength"} ELSE {step}

\* the file starts with the bytes WriteTo gives for the tag it was saved with, and
\* its header declares that tag's size: what Open reads from the file is that tag
SavedFileHoldsItsTag ==
    /\ parseOutcome(parseHeader(svFile), ParseAll).init
    /\ parseOutcome(parseHeader(svFile), ParseAll).size = svFileTag.size
    /\ (parseOutcome(parseHeader(svFile), ParseAll).err = "frames") <=> TagHasFrames(svFileTag.tag)
    /\ \E order \in IterationOrders(svFileTag.tag) :
          SubSeq(svFile, 1, svFileTag.size) = TagWriteTo(svFileTag.tag, order).out

\* C6 as stated: when stat, the creation of the temporary file, the writing of the
\* tag, the seek or the copy fails, Save returns that error, the original file has
\* the content it had, and no file exists at the temporary path when Save returns.
C6_FailedSaveLeavesNoTemp ==
    (Returned /\ svCall.failedAt \in StepsBeforeRename)
        => /\ svCall.ret \in ErrorsOf(svCall.failedAt)
           /\ svFile = svCall.file0
           /\ ~svTemp.exists

\* what C6 states of the error returned and of the original file holds; the
\* temporary path is as it was when stat or the creation fails, and after a failed
\* write, seek or copy a file is there exactly when os.Remove did not remove it
C6_FailedSaveKeepsOriginal ==
    (Returned /\ svCall.failedAt \in StepsBeforeRename)
        => /\ svCall.ret \in ErrorsOf(svCall.failedAt)
           /\ svFile = svCall.file0
           /\ svCall.failedAt \in {"stat", "create"}
                 => ~svCall.removeTried /\ svTemp = svCall.temp0
           /\ svCall.failedAt \in {"write", "seek", "copy"}
                 => svCall.removeTried /\ (svTemp.exists <=> ~svCall.removed)

\* C6: the writing of the tag failed, os.Remove failed too, Save returned the
\* error of the write and the temporary file is still there
C6_TempLeftAfterFailedWrite ==
    /\ Returned
    /\ svCall.failedAt = "write"
    /\ svCall.ret = "ErrInvalidLanguageLength"
    /\ svCall.removeTried /\ ~svCall.removed
    /\ ~svCall.temp0.exists
    /\ svTemp.exists

\* a copy that failed half way, and the temporary file removed on return
C6_CopyFailedTempRemoved ==
    /\ Returned
    /\ svCall.failedAt = "copy"
    /\ svCall.tagOut # <<>>
    /\ svCall.removed
    /\ ~svTemp.exists

\* C7 as stated: after a Save that returned nil the file is the bytes Tag.WriteTo
\* produced followed by the bytes the original held from originalSize on, and
\* nothing else; originalSize is the number of tag bytes written, the reader is a
\* handle on the new file, and the bytes after the tag are the original payload.
C7_SavedFileIsTagPlusPayload ==
    (Returned /\ svCall.ret = "nil")
        => /\ svFile = svCall.tagOut \o Payload(svCall.file0, svCall.size0)
           /\ svOriginalSize = Len(svCall.tagOut)
           /\ svReader = "open"
           /\ Payload(svFile, svOriginalSize) = Payload(svCall.file0, svCall.size0)

\* a Save that returned nil and left bytes of an older temporary file in the file
C7_StaleBytesSaved ==
    /\ Returned
    /\ svCall.ret = "nil"
    /\ svCall.temp0.exists
    /\ Len(svFile) > Len(svCall.tagOut) + Len(Payload(svCall.file0, svCall.size0))

\* what C7 states holds of every Save that found no file at the temporary path
C7_FreshTempSaved ==
    (Returned /\ svCall.ret = "nil" /\ ~svCall.temp0.exists)
        => /\ svFile = svCall.tagOut \o Payload(svCall.file0, svCall.size0)
           /\ svOriginalSize = Len(svCall.tagOut)
           /\ svReader = "open"
           /\ Payload(svFile, svOriginalSize) = Payload(svCall.file0, svCall.size0)

\* C8 as stated: the rename is attempted only after the tag bytes and the whole
\* payload were written to the temporary file and that file was closed
\* successfully.
C8_RenameAfterWrittenAndClosed ==
    svCall.renameTried
        => svCall.tagDone /\ svCall.copyDone /\ svCall.closed = "ok"

\* a rename attempted although closing the temporary file failed
C8_RenamedAfterFailedClose ==
    /\ svCall.renameTried
    /\ svCall.closed = "failed"
    /\ svFile = svTemp.data \/ ~svTemp.exists

\* the order C8 states holds, whatever Close returned
C8_RenameAfterWrittenAndCloseCalled ==
    svCall.renameTried
        => svCall.tagDone /\ svCall.copyDone /\ svCall.closed \in {"ok", "failed"}

(***************************************************************************)
(* Claims about parse                                                      *)
(***************************************************************************)
\* a parse has returned
ParseReturned == psPc = "idle" /\ psErr \notin {"none", "pending"}

HasMarker(src) == Len(src) >= 3 /\ SubSeq(src, 1, 3) = id3Identifier

\* parse returned nil and the tag is as tag.init(rd, 0, 4) leaves it
InitializedEmpty ==
    /\ psErr = "nil"
    /\ TagCount(psTag) = 0
    /\ psTag.version = 4
    /\ psOriginalSize = 0
    /\ psReader = "rd"

\* C9 as stated: parsing a source that does not start with "ID3", or that has
\* fewer than ten bytes (one to nine, or none), returns no error and leaves the tag
\* initialized empty: no frames, version 4, size 0, the reader set to the source.
C9_NoTagIsNotAnError ==
    (ParseReturned /\ (~HasMarker(psCall.src) \/ Len(psCall.src) < tagHeaderSize))
        => InitializedEmpty

\* C9: parsing a source of no bytes at all, or of ten bytes and more that does not
\* start with "ID3", returns no error and leaves the tag initialized empty: no
\* frames, version 4, size 0, the reader set to the source.  Parsing a source of
\* one to nine bytes returns an error that wraps ErrSmallHeaderSize and does not
\* initialize the tag: it has no frames and keeps the version, the size and the
\* reader it had.
C9_NoTagOrSmallHeader ==
    /\ (ParseReturned
        /\ (psCall.src = <<>>
            \/ (Len(psCall.src) >= tagHeaderSize /\ ~HasMarker(psCall.src))))
           => InitializedEmpty
    /\ (ParseReturned /\ Len(psCall.src) \in 1..(tagHeaderSize - 1))
           => /\ psErr = WrappedHeaderError("ErrSmallHeaderSize")
              /\ TagCount(psTag) = 0
              /\ psTag.version = psCall.version
              /\ psOriginalSize = psCall.originalSize
              /\ psReader = psCall.reader

\* a tag of version 3 with a tag of 21 bytes behind it, reset to three bytes
C9_ResetToThreeBytes ==
    /\ ParseReturned
    /\ psCall.src = <<73, 68, 51>>
    /\ psCall.version = 3
    /\ psCall.originalSize = 21
    /\ psTag.version = 3
    /\ psReader = "earlier"
    /\ psErr = WrappedHeaderError("ErrSmallHeaderSize")

RECURSIVE AddedCost(_)
AddedCost(added) ==
    IF added = <<>> THEN Int64(0)
    ELSE Int64Add(Int64Add(Int64(frameHeaderSize), Head(added).bodySize),
                  AddedCost(Tail(added)))

\* the header and the body of the frame last seen exceed what was left
LastExceedsRemaining ==
    Int64Less(psLast.remaining, Int64Add(Int64(frameHeaderSize), psLast.bodySize))

\* C10: when the ten bytes of a frame header plus the body size it declares
\* exceed what is left of the frame area, parse returns ErrBodyOverflow and the
\* frame is not added; the sum of 10 + bodySize over the frames one parse added
\* never exceeds the frame-area size the tag header declares.
C10_ScanStaysInFrameArea ==
    /\ (psLast.seen /\ LastExceedsRemaining)
          => psPc = "idle" /\ psErr = "ErrBodyOverflow" /\ ~psLast.added
    /\ psErr = "ErrBodyOverflow"
          => psLast.seen /\ LastExceedsRemaining
    /\ psAdded # <<>> => ~Int64Less(Int64(psOriginalSize - tagHeaderSize), AddedCost(psAdded))

\* a first frame added, and the second one refused as it overflows the frame area
C10_SecondFrameOverflows ==
    /\ psErr = "ErrBodyOverflow"
    /\ Len(psAdded) = 1
    /\ psLast.seen
    /\ ~psLast.added
    /\ Int64Less(Int64(0), psLast.remaining)


\* a version 3 frame header that declares 2^31 bytes is refused as an overflow of
\* the frame area, and the scan has read the ten bytes of the header
C10_LargeBodySizeOverflows ==
    /\ psErr = "ErrBodyOverflow"
    /\ psLast.bodySize = [hi |-> 1, lo |-> 0]
    /\ psPos = tagHeaderSize + frameHeaderSize

\* the source ended three bytes into a frame header and the pooled slice held the
\* rest of a header: the frame was added, and the scan has read the source's bytes
C10_ShortHeaderReadKeepsPosition ==
    /\ Len(psAdded) = 1
    /\ psAdded[1].id = <<88, 88, 88, 89>>
    /\ Len(psSrc) = tagHeaderSize + 3
    /\ psPos = Len(psSrc)

(***************************************************************************)
(* Claims about malformed sizes and the allow-list of parse               *)
(***************************************************************************)
\* src starts with a tag header whose size has a byte with the top bit set
MalformedTagHeader(src) ==
    /\ Len(src) >= tagHeaderSize
    /\ HasMarker(src)
    /\ \E i \in 7..tagHeaderSize : src[i] >= 128

\* the scan met a frame header whose synch-safe size has a byte with the top bit set
MalformedFrameSizeMet == psLast.err = "ErrInvalidSizeFormat"

\* C11 as stated: a malformed synch-safe size (a size byte with its top bit set) in
\* the tag header, or in any frame header of a version-4 tag, makes parse return an
\* error; parse never returns successfully after dropping the rest of the tag.
C11_MalformedSizeIsAnError ==
    (ParseReturned
     /\ (MalformedTagHeader(psCall.src) \/ (psTag.version = 4 /\ MalformedFrameSizeMet)))
        => psErr # "nil"

\* C11: a malformed synch-safe size in the tag header makes parse return an error
\* that wraps ErrInvalidSizeFormat, with the tag left without frames and with the
\* version it had.  A malformed synch-safe size in a frame header of a version-4
\* tag ends the scan at that header: parse returns no error, the tag keeps the
\* frames added before it, and the rest of the frame area is not read.
C11_MalformedFrameSizeEndsScan ==
    /\ (ParseReturned /\ MalformedTagHeader(psCall.src))
           => /\ psErr = WrappedHeaderError("ErrInvalidSizeFormat")
              /\ TagCount(psTag) = 0
              /\ psTag.version = psCall.version
    /\ (ParseReturned /\ MalformedFrameSizeMet)
           => /\ psErr = "nil"
              /\ psTag.version = 4
              /\ Int64Less(Int64(0), psLast.remaining)
              /\ \A i \in 1..Len(psAdded) : TagGetFrames(psTag, psAdded[i].id) # <<>>

\* a version-4 tag whose second frame header has a malformed size: parse returned
\* no error with the first frame only
C11_MalformedFrameSizeDropped ==
    /\ ParseReturned
    /\ MalformedFrameSizeMet
    /\ psTag.version = 4
    /\ Len(psAdded) = 1
    /\ psErr = "nil"

\* the ids of the frames the parse has added
AddedIds == {psAdded[i].id : i \in 1..Len(psAdded)}

\* the ids of the allow-list that are kept one per tag
RequestedSingular == {id \in psCall.ids : ~mustFrameBeInSequence(id)}

\* the loop is about to read one more frame header
ReadsNextHeader ==
    psPc = "frames" /\ Int64Less(Int64(0), psFramesSize) /\ psPos < Len(psSrc)

\* C12 as stated: with a non-empty ParseFrames allow-list the scan reads no further
\* frame header once every requested singular id has been parsed, also when the
\* allow-list names sequence ids too; no frame with an id outside the allow-list is
\* added to the tag.
C12_StopsWhenSingularIdsParsed ==
    /\ (RequestedSingular # {} /\ RequestedSingular \subseteq AddedIds) => ~ReadsNextHeader
    /\ psCall.ids # {} => AddedIds \subseteq psCall.ids

\* C12: with a non-empty ParseFrames allow-list no frame with an id outside the
\* allow-list is added to the tag, and the ids still looked for are the allow-list
\* without the singular ids already parsed.  The scan stops at the frame that
\* leaves no id looked for, which happens only when the allow-list names singular
\* ids alone; when it also names a sequence id the scan goes on after the last
\* singular id was parsed.
C12_StopsWhenNoIdIsLeft ==
    psCall.ids # {} =>
        /\ AddedIds \subseteq psCall.ids
        /\ psIds = psCall.ids \ (AddedIds \cap RequestedSingular)
        /\ psIds = {} => (psPc = "idle" /\ psErr = "nil" /\ psLast.added)
        /\ ReadsNextHeader => psIds # {}

\* the allow-list names IPLS and the sequence id YYYY, the IPLS frame was added, and
\* the loop reads the next header
C12_ScanGoesOnForSequenceId ==
    /\ psCall.ids = {IPLS, YYYY}
    /\ IPLS \in AddedIds
    /\ ReadsNextHeader

\* the allow-list names IPLS alone and the scan stopped at the IPLS frame with
\* bytes of the frame area left
C12_ScanStoppedAtLastSingularId ==
    /\ psCall.ids = {IPLS}
    /\ AddedIds = {IPLS}
    /\ psPc = "idle"
    /\ Int64Less(Int64(0), psFramesSize)
    /\ psPos < Len(psSrc)

(***************************************************************************)
(* The loop of parseFrames ends.                                           *)
(***************************************************************************)
\* a round of the loop of parseFrames either leaves the loop or takes at least 11
\* off the remaining frame-area size, and the loop is left once that size is no
\* longer positive
ScanRoundsCountDown ==
    [][ParseFrame =>
          /\ psPc' = "idle" \/ ~Int64Less(Int64Sub(psFramesSize, Int64(11)), psFramesSize')
          /\ ~Int64Less(Int64(0), psFramesSize) => psPc' = "idle"]_vars

\* a Read of the loop that skips a body ends that loop or takes at least one byte
\* off what the limited reader still allows
SkipReadsCountDown ==
    [][ParseSkip =>
          /\ psPc' = "frames" \/ Int64Less(psLimit', psLimit)
          /\ psFramesSize' = psFramesSize]_vars

\* parse is inside parseFrames
InScan == psPc \in {"frames", "skip", "readall"}

\* tag.reader has no bytes left, answers 0 bytes and no error, and the limited
\* reader over it still allows bytes
ReaderStalled ==
    /\ psEnd = "stall"
    /\ psPos >= Len(psSrc)
    /\ Int64Less(Int64(0), psLimit)

\* C27: the frame scan terminates for every byte source and every declared
\* frame-area size: a round of the loop either leaves the loop or takes at least
\* 11 off the remaining frame-area size, the loop is left once that size is no
\* longer positive, and so every scan returns
C27_ScanTerminatesForEverySource ==
    /\ ScanRoundsCountDown
    /\ SkipReadsCountDown
    /\ InScan ~> (psPc = "idle")

\* C27: the frame scan terminates for every declared frame-area size and every
\* byte source that answers io.EOF once its bytes are used up: a round of the
\* loop either leaves the loop or takes at least 11 off the remaining frame-area
\* size, the loop is left once that size is no longer positive, a Read of the
\* loop that skips a body either ends that loop or takes at least one byte off
\* what the limited reader still allows, and so every such scan returns.  Over a
\* source that answers 0 bytes and no error at its end, the loop of skipReaderBuf
\* and the loop of ReadFrom under ReadAll are never left once the source is used
\* up inside a body
C27_ScanTerminates ==
    /\ ScanRoundsCountDown
    /\ SkipReadsCountDown
    /\ (InScan /\ psEnd = "EOF") ~> (psPc = "idle")
    /\ [](psEnd = "EOF" => psPc # "readall")
    /\ []((psPc = "skip" /\ ReaderStalled) => [](psPc = "skip"))
    /\ [](psPc = "readall" => [](psPc = "readall" /\ ReaderStalled))

\* C27: a scan of a source that ends with io.EOF went through two frames, used up
\* the declared size and returned
C27_ScanUsedUpDeclaredSize ==
    /\ psPc = "idle" /\ psErr = "nil"
    /\ psEnd = "EOF"
    /\ Len(psAdded) = 2
    /\ psFramesSize = Int64(0)
    /\ psCall.src = TagHeaderBytes(4, 23) \o FrameBytes(XXXX, 1, 1) \o FrameBytes(YYYY, 2, 2)

\* C27: the loop of skipReaderBuf over a source that answers 0 bytes and no error
\* at its end: the source is used up and the limited reader still allows bytes
C27_SkipStalled ==
    /\ psPc = "skip"
    /\ ReaderStalled
    /\ psErr = "pending"

\* C27: ReadAll of a body over a source that answers 0 bytes and no error at its
\* end: no frame is added and parse does not return
C27_ReadAllStalled ==
    /\ psPc = "readall"
    /\ ReaderStalled
    /\ psErr = "pending"

\* C27: a scan of a source that answers 0 bytes and no error at its end returned:
\* the header the slice still held declared more than the frame area had left
C27_StalledSourceScanReturned ==
    /\ psPc = "idle"
    /\ psEnd = "stall"
    /\ psErr = "ErrBodyOverflow"
    /\ psPos = Len(psSrc)

\* the allow-list names IPLS alone
OnlyIPLSLookedFor == psCall.ids = {IPLS}

\* C27: a body of more bytes than the pooled slice holds was skipped in two Reads
\* and the scan found the frame behind it
C27_LongBodySkipped ==
    /\ psPc = "idle" /\ psErr = "nil"
    /\ OnlyIPLSLookedFor
    /\ psCall.src \in LongSkipSources
    /\ AddedIds = {IPLS}
    /\ psPos = Len(psSrc)

\* a skipped body of more bytes than the pooled slice holds, then three bytes of a
\* header: the header is made up with bytes the second Read of the skip left in
\* the slice, its size is malformed and parse returns no error
LongSkipLeavesLastBytes ==
    /\ psPc = "idle" /\ psErr = "nil"
    /\ OnlyIPLSLookedFor
    /\ psCall.src \in LongSkipSources
    /\ psLast.err = "ErrInvalidSizeFormat"
    /\ psBuf = <<89, 89, 89, 7, 128, 7, 7, 7, 7, 7>>
    /\ psPos = Len(psSrc)

\* the loop that skips a body is inside its second Read
InSecondSkipRead ==
    /\ psPc = "skip"
    /\ psLimit = Int64(5)

(***************************************************************************)
(* Claims about the frames a tag holds                                     *)
(***************************************************************************)
\* the frames of fs whose identity key is a function of their fields
KeyedFrames(fs) == {i \in 1..Len(fs) : fs[i].kind # "UnknownFrame"}

\* C15: in every state reached by AddFrame, DeleteFrames, DeleteAllFrames and Reset
\* calls, no sequence of the tag holds two frames, other than unknown frames, with
\* equal identity keys.
C15_SequenceKeysDistinct ==
    \A id \in DOMAIN tgTag.sequences :
        \A i, j \in KeyedFrames(tgTag.sequences[id]) :
            i # j => UniqueIdentifier(tgTag.sequences[id][i], 0)
                        # UniqueIdentifier(tgTag.sequences[id][j], 0)

\* the sequence of COMM holds two comments, the first of them the one that has the
\* key of another comment given to AddFrame
C15_TwoCommentsKept ==
    /\ COMM \in DOMAIN tgTag.sequences
    /\ Len(tgTag.sequences[COMM]) = 2
    /\ tgTag.sequences[COMM][1] = CommentFrame(EncodingISOKey, Eng, <<>>, <<233>>)
    /\ tgTag.sequences[COMM][2].kind = "CommentFrame"

\* the number of frames the tag holds under id
CountOf(tag, id) == TagCount(tag) - TagCount(TagDeleteFrames(tag, id))

\* C16: after AddFrame(id, f) with a frame that is not nil and an id of the
\* singular store, GetFrames(id) is exactly [f], GetLastFrame(id) is f and the id
\* counts for exactly one frame in Count(), whatever was added under the id
\* before; AddFrame with an empty id or a nil frame changes nothing.
C16_SingularHoldsLastAdded ==
    stLast.op = "AddFrame" =>
        IF stLast.id = <<>> \/ stLast.f = NilFrame
        THEN stLast.same
        ELSE ~mustFrameBeInSequence(stLast.id) =>
                /\ TagGetFrames(stTag, stLast.id) = <<stLast.f>>
                /\ TagGetLastFrame(stTag, stLast.id) = stLast.f
                /\ CountOf(stTag, stLast.id) = 1
                /\ stLast.id \notin DOMAIN stTag.sequences

\* a frame was added under the title id, which held another frame
C16_TitleOverwritten ==
    /\ stLast.op = "AddFrame"
    /\ stLast.id = TitleFrameID
    /\ stLast.had
    /\ ~stLast.same
    /\ stLast.f = TextFrame(EncodingISOKey, <<98>>)
    /\ TagCount(stTag) = 2

\* C17: the identity keys of two unknown frames differ, so sequence.AddFrame with
\* an unknown frame appends it: the sequence grows by one and no frame of it is
\* replaced.
C17_UnknownFramesNeverCollide ==
    (sqLast.op = "AddFrame" /\ sqLast.f.kind = "UnknownFrame") =>
        /\ \A i \in 1..Len(sqLast.before) :
              sqLast.before[i].kind = "UnknownFrame"
                  => ~KeysEqual(sqLast.f, sqLast.before[i], sqLast.rnd[i])
        /\ Len(sqFrames) = Len(sqLast.before) + 1
        /\ \A i \in 1..Len(sqLast.before) : sqFrames[i] = sqLast.before[i]

\* rand.Int() gave the same number for the unknown frame added and for an unknown
\* frame of the sequence, whose place the added frame took: the sequence did not grow
C17_UnknownFrameReplaced ==
    /\ sqLast.op = "AddFrame"
    /\ sqLast.f.kind = "UnknownFrame"
    /\ Len(sqLast.before) >= 1
    /\ Len(sqFrames) = Len(sqLast.before)
    /\ \E i \in 1..Len(sqLast.before) :
          /\ sqLast.before[i].kind = "UnknownFrame"
          /\ KeysEqual(sqLast.f, sqLast.before[i], sqLast.rnd[i])
          /\ sqFrames[i] = sqLast.f

\* C18: in every state of a tag, after NewEmptyTag, after Reset on any source and
\* after any SetVersion call, Version() is 3 or 4.
C18_VersionIsThreeOrFour == tgTag.version \in {3, 4}

\* Reset to a source whose header has the version byte 5 left the tag with version
\* 5 and the default encoding of version 3
C18_VersionFiveStored ==
    /\ tgTag.version = 5
    /\ tgTag.defaultEncoding = EncodingISOKey
    /\ TagCount(tgTag) = 1

(***************************************************************************)
(* The two maps of a tag.  Parsing and Reset change them through           *)
(* DeleteAllFrames and AddFrame only, and getSequence hands AddFrame a     *)
(* sequence without frames, whatever the pool held.                        *)
(***************************************************************************)
\* the frames AllFrames() lists under the ids of S, counted
RECURSIVE SumListed(_, _)
SumListed(all, S) ==
    IF S = {} THEN 0
    ELSE LET id == CHOOSE x \in S : TRUE
         IN  Len(all[id]) + SumListed(all, S \ {id})

\* C30: in every state of a tag no id is in both maps, every stored sequence holds
\* a frame, Count() is the number of frames AllFrames() lists, HasFrames() is true
\* exactly when Count() > 0, and DeleteFrames(id) changes the frames of no other id
C30_TagMapsConsistent ==
    /\ [](/\ DOMAIN tgTag.frames \cap DOMAIN tgTag.sequences = {}
          /\ \A id \in DOMAIN tgTag.sequences : Len(tgTag.sequences[id]) >= 1
          /\ TagCount(tgTag) = SumListed(TagAllFrames(tgTag), DOMAIN TagAllFrames(tgTag))
          /\ TagHasFrames(tgTag) <=> TagCount(tgTag) > 0)
    /\ [][tgLast'.op = "DeleteFrames" =>
            \A other \in (TagIds \cup DOMAIN TagAllFrames(tgTag)) \ {tgLast'.id} :
                TagGetFrames(tgTag', other) = TagGetFrames(tgTag, other)]_vars

\* C30: a tag holds a frame in each of its maps
C30_FrameInEachMap ==
    /\ DOMAIN tgTag.frames # {} /\ DOMAIN tgTag.sequences # {}
    /\ TagCount(tgTag) = 2

\* a sequence holds two frames
C30_SequenceOfTwo ==
    \E id \in DOMAIN tgTag.sequences : Len(tgTag.sequences[id]) = 2

\* DeleteFrames(id) removed the frames of id and left a frame of another id
C30_DeleteFramesKeptOtherId ==
    /\ tgLast.op = "DeleteFrames"
    /\ TagGetFrames(tgTag, tgLast.id) = <<>>
    /\ TagCount(tgTag) = 1

(***************************************************************************)
(* Claims about a tag without frames                                       *)
(***************************************************************************)
\* C19: for a tag with no frames Size() is 0 and WriteTo writes no byte and returns
\* (0, nil); a Save of such a tag that returned nil leaves a file that is exactly
\* the bytes the original held from originalSize on, and a recorded size of 0.
C19_EmptyTagSavesPayloadOnly ==
    TagCount(svTag) = 0 =>
        /\ TagSize(svTag) = 0
        /\ \A order \in IterationOrders(svTag) :
              TagWriteTo(svTag, order) = [panic |-> FALSE, out |-> <<>>, n |-> 0, err |-> "nil"]
        /\ (Returned /\ svCall.ret = "nil")
              => /\ svFile = Payload(svCall.file0, svCall.size0)
                 /\ svOriginalSize = 0

\* a Save of a tag with no frames returned nil and left, after the payload, bytes
\* of the file it found at the temporary path
C19_EmptyTagSavedWithTail ==
    /\ TagCount(svTag) = 0
    /\ Returned
    /\ svCall.ret = "nil"
    /\ svCall.tagOut = <<>>
    /\ svCall.temp0.exists
    /\ svOriginalSize = 0
    /\ Len(svFile) > Len(Payload(svCall.file0, svCall.size0))

\* what C19 states holds of every Save that found no file at the temporary path
C19_EmptyTagSavedToFreshTemp ==
    (TagCount(svTag) = 0 /\ ~svCall.temp0.exists) =>
        /\ TagSize(svTag) = 0
        /\ \A order \in IterationOrders(svTag) :
              TagWriteTo(svTag, order) = [panic |-> FALSE, out |-> <<>>, n |-> 0, err |-> "nil"]
        /\ (Returned /\ svCall.ret = "nil")
              => /\ svFile = Payload(svCall.file0, svCall.size0)
                 /\ svOriginalSize = 0

(***************************************************************************)
(* Save and Close of a tag that has no file.                               *)
(***************************************************************************)
\* C26: Save and Close on a tag whose reader is not a file return ErrNoFile and
\* return at once, create and change no file, and leave the tag's frames,
\* version, recorded size and reader as they were
C26_NoFileIsAnError ==
    [][((SaveEnter \/ Close) /\ svReader \in NonFileReaders) =>
           /\ svCall'.ret = "ErrNoFile"
           /\ svPc' = "idle"
           /\ UNCHANGED <<svFile, svTemp, svTag, svOriginalSize, svReader>>]_vars

\* C26: Close returned ErrNoFile on a tag with a frame that ParseReader read from
\* a source that is no file
C26_CloseWithoutFile ==
    /\ svPc = "idle" /\ svReader = "reader"
    /\ svCall.ret = "ErrNoFile" /\ svCall.failedAt = "close"
    /\ TagHasFrames(svTag)

\* Save returned ErrNoFile on a tag made by NewEmptyTag to which a frame was added
C26_SaveWithoutFile ==
    /\ svPc = "idle" /\ svReader = "none"
    /\ svCall.ret = "ErrNoFile" /\ svCall.failedAt = "reader"
    /\ TagHasFrames(svTag)

(***************************************************************************)
(* Claims about the synchronised lyrics frame                              *)
(***************************************************************************)
\* the parsed frame p has the fields of the frame f that was written
SameAsWritten(f, p) ==
    /\ p.Encoding = f.Encoding
    /\ p.Language = StrBytes(f.Language)
    /\ p.TimestampFormat = f.TimestampFormat
    /\ p.ContentType = f.ContentType
    /\ p.ContentDescriptor = StrBytes(f.ContentDescriptor)
    /\ Len(p.SynchronizedTexts) = Len(f.SynchronizedTexts)
    /\ \A i \in 1..Len(f.SynchronizedTexts) :
          i <= Len(p.SynchronizedTexts) =>
             /\ p.SynchronizedTexts[i].Text = StrBytes(f.SynchronizedTexts[i].Text)
             /\ p.SynchronizedTexts[i].Timestamp = PutUint32(f.SynchronizedTexts[i].Timestamp)

RoundTripHolds ==
    /\ ~slParsed.panic
    /\ slParsed.err = "nil"
    /\ SameAsWritten(slFrame, slParsed.frame)

\* C20: for every SynchronisedLyricsFrame with a 3-byte language, any of the four
\* encodings, and a descriptor and texts without the termination sequence,
\* parseSynchronisedLyricsFrame on the bytes WriteTo wrote gives the same encoding,
\* language, timestamp format, content type, descriptor and entries in order.
C20_SyltRoundTrip == slPc = "parsed" => RoundTripHolds

\* a frame in UTF-16BE whose descriptor is U+0100 (bytes 01 00) and which has no
\* entries was parsed back with the replacement character as its descriptor
C20_Utf16BEDescriptorCut ==
    /\ slPc = "parsed"
    /\ slFrame.Encoding = EncodingUTF16BEKey
    /\ slFrame.ContentDescriptor = <<256>>
    /\ slFrame.SynchronizedTexts = <<>>
    /\ slOut = <<2, 101, 110, 103, slFrame.TimestampFormat, 1, 1, 0, 0, 0>>
    /\ slParsed.err = "nil"
    /\ slParsed.frame.ContentDescriptor = StrBytes(<<RuneError>>)

\* a frame in UTF-16 with BOM with one entry at a timestamp other than 0 was
\* parsed back with another timestamp
C20_Utf16TimestampShifted ==
    /\ slPc = "parsed"
    /\ slFrame.Encoding = EncodingUTF16Key
    /\ Len(slFrame.SynchronizedTexts) = 1
    /\ Len(slParsed.frame.SynchronizedTexts) = 1
    /\ slFrame.SynchronizedTexts[1].Text = <<97>>
    /\ slParsed.frame.SynchronizedTexts[1].Text = <<97>>
    /\ slParsed.frame.SynchronizedTexts[1].Timestamp
          # PutUint32(slFrame.SynchronizedTexts[1].Timestamp)

\* what C20 states holds of the frames in ISO-8859-1 and in UTF-8
C20_SyltRoundTripOneByteEncodings ==
    (slPc = "parsed" /\ slFrame.Encoding \in {EncodingISOKey, EncodingUTF8Key})
        => RoundTripHolds

\* a frame in UTF-16BE with the descriptor U+0100 and the entry "a" was parsed back
\* with another language: the scan for the next entry ended with three bytes
\* unread, which the reader moved to the start of its buffer, over the bytes the
\* language slice points at
C20_Utf16BELanguageOverwritten ==
    /\ slPc = "parsed"
    /\ slFrame.Encoding = EncodingUTF16BEKey
    /\ slFrame.Language = Eng
    /\ slOut = <<2, 101, 110, 103, 2, 1, 1, 0, 0, 0, 0, 97, 0, 0, 0, 1, 1, 1>>
    /\ slParsed.err = "nil"
    /\ slParsed.frame.Language = <<1, 1, 103>>
(***************************************************************************)
(* Claims about the body parsers                                           *)
(***************************************************************************)
ChapterParsedState == bdPc = "parsed" /\ bdParser = CHAP

\* what the first of these subframes parses to, zero when there is none
ExpectedOf(sub, zero) == IF sub = <<>> THEN zero ELSE SubframeParsed(sub[1].id, sub[1].body).frame

\* the subframes of subs with this id
WithId(subs, id) == SelectSeq(subs, LAMBDA s : s.id = id)

\* C21: the chapter sub-parse fills Title, Description, Link and Artwork from the
\* TIT2, TIT3, WXXX and APIC subframes wherever they stand and in whatever order,
\* skips a subframe with another id, and leaves default-valued the fields whose
\* subframe is absent.
C21_SubframesFillFields ==
    ChapterParsedState =>
        /\ bdParsed.err = "nil"
        /\ bdParsed.frame.Title = ExpectedOf(WithId(bdInput.subs, TitleFrameID), ZeroTextFrame)
        /\ bdParsed.frame.Description
               = ExpectedOf(WithId(bdInput.subs, SubtitleRefinementFrameID), ZeroTextFrame)
        /\ bdParsed.frame.Link = ExpectedOf(WithId(bdInput.subs, WXXX), ZeroLinkFrame)
        /\ bdParsed.frame.Artwork = ExpectedOf(WithId(bdInput.subs, APIC), ZeroPictureFrame)

\* a title subframe that follows a subframe with an unknown id is not parsed: the
\* body of the unknown subframe is read as the next subframe header
C21_TitleAfterUnknownSubframeLost ==
    /\ ChapterParsedState
    /\ bdInput.subs = <<[id |-> XXXX, body |-> <<7>>], [id |-> TitleFrameID, body |-> <<0, 84>>]>>
    /\ bdInput.version = 3
    /\ bdParsed.err = "nil"
    /\ bdParsed.frame.Title = ZeroTextFrame
    /\ bdParsed.headers = 3

\* a title subframe that follows a link subframe is not parsed either
C21_TitleAfterLinkLost ==
    /\ ChapterParsedState
    /\ bdInput.subs = <<[id |-> WXXX, body |-> <<0, 117>>], [id |-> TitleFrameID, body |-> <<0, 84>>]>>
    /\ bdParsed.err = "nil"
    /\ bdParsed.frame.Link.URL = <<117>>
    /\ bdParsed.frame.Title = ZeroTextFrame

\* the body breaks off in a subframe header
HeaderCutShort == bdInput.data = ChapterBody(bdInput.subs, CutHeader)

\* a chapter of title and description subframes only, whose body does not break off
\* in a subframe header, is parsed as C21 says
C21_TextSubframesFillFields ==
    (ChapterParsedState /\ ~HeaderCutShort
         /\ SubframeIds(bdInput.subs) \subseteq {TitleFrameID, SubtitleRefinementFrameID}) =>
        /\ bdParsed.err = "nil"
        /\ bdParsed.frame.Title = ExpectedOf(WithId(bdInput.subs, TitleFrameID), ZeroTextFrame)
        /\ bdParsed.frame.Description
               = ExpectedOf(WithId(bdInput.subs, SubtitleRefinementFrameID), ZeroTextFrame)
        /\ bdParsed.frame.Link = ZeroLinkFrame
        /\ bdParsed.frame.Artwork = ZeroPictureFrame

\* a header cut short is read into the pooled slice over the header an earlier
\* parse left there, and takes its last seven bytes from it: with a stale title
\* header of two bytes the title's parser finds no byte and io.EOF is returned
CutHeaderReadsStaleHeader ==
    /\ ChapterParsedState /\ HeaderCutShort
    /\ bdInput.subs = <<>>
    /\ bdInput.buf = FrameBytes(TitleFrameID, 2, 0)
    /\ bdParsed.err = "EOF"
    /\ bdParsed.frame = NilFrame

\* the same body parsed with a new slice: the header is blank and the chapter is
\* returned
CutHeaderInNewSlice ==
    /\ ChapterParsedState /\ HeaderCutShort
    /\ bdInput.subs = <<>>
    /\ bdInput.buf = [i \in 1..frameHeaderSize |-> 0]
    /\ bdParsed.err = "nil"
    /\ bdParsed.frame.Title = ZeroTextFrame

\* an error is returned for a chapter only when a cut header was completed by the
\* header read before it, of this parse or of an earlier one: it is io.EOF
ChapterErrorsOnlyFromCutHeader ==
    (ChapterParsedState /\ bdParsed.err # "nil") =>
        /\ HeaderCutShort
        /\ bdParsed.err = "EOF"
        /\ \/ bdInput.buf = FrameBytes(TitleFrameID, 2, 0)
           \/ bdInput.subs # <<>>

\* what br took from its source for the chapter with this long subframe, parsed
\* with a buffer of this capacity
LongChapterTaken(id, len, cap) ==
    \E l \in LongSubframes :
        /\ l.sub.id = id /\ Len(l.sub.body) = len
        /\ ChapterParsedState
        /\ bdInput.data = LongChapterBody(l) /\ bdInput.cap = cap
        /\ bdParsed.err = "nil"

\* a long link read into a buffer the pool made: the parser's reader filled its
\* buffer, then bytes.Buffer.ReadFrom asked for more than a buffer's size at once
\* and br handed the Read on; for the last bytes br filled its buffer once more
LongLinkReadThroughNewBuffer ==
    /\ LongChapterTaken(WXXX, LongLinkLen, 0)
    /\ bdParsed.read = Len(ChapterFields) + frameHeaderSize + LongLinkLen
    /\ bdParsed.taken > bdParsed.read + defaultBufSize \div 2
    /\ bdParsed.taken < Len(bdInput.data)

\* the same link read into a pooled buffer with room for it: br took no byte more
\* than it handed out
LongLinkReadThroughPooledBuffer ==
    /\ LongChapterTaken(WXXX, LongLinkLen, 4 * defaultBufSize)
    /\ bdParsed.taken = bdParsed.read
    /\ bdParsed.read = Len(ChapterFields) + frameHeaderSize + LongLinkLen

\* a long picture is read by ReadAll into a buffer of its own, whatever bbPool holds
LongPictureTaken ==
    (ChapterParsedState /\ bdInput.subs # <<>> /\ bdInput.subs[1].id = APIC) =>
        \A in \in ChapterInputs :
            (in.data = bdInput.data /\ in.version = bdInput.version /\ in.buf = bdInput.buf) =>
                parseChapterFrame(in.data, in.version, in.buf, in.caps).taken = bdParsed.taken

\* br never takes fewer bytes than it hands out, nor more than the body has
ChapterTakenWithinBody ==
    ChapterParsedState =>
        /\ bdParsed.read <= bdParsed.taken
        /\ bdParsed.taken <= Len(bdInput.data)

\* the body holds its encoding byte and fewer than 3 bytes of language
LanguageCutShort ==
    /\ bdPc = "parsed"
    /\ bdParser \in {COMM, USLT, SYLT}
    /\ Len(bdInput.data) \in 1..3

\* C22: the body parser of a comment, unsynchronised lyrics or synchronised lyrics
\* frame returns ErrInvalidLanguageLength when the body does not hold 3 bytes of
\* language.
C22_ShortLanguageIsALanguageError ==
    LanguageCutShort => bdParsed.err = "ErrInvalidLanguageLength"

\* a comment body that ends 2 bytes after the encoding byte: io.EOF is returned
C22_ShortLanguageIsEOF ==
    /\ LanguageCutShort
    /\ bdParser = COMM
    /\ bdInput.data = <<0, 101, 110>>
    /\ bdParsed.err = "EOF"

\* no body parser returns ErrInvalidLanguageLength
C22_NoParserReturnsLanguageError ==
    bdPc = "parsed" => bdParsed.err # "ErrInvalidLanguageLength"

\* C29: parseSynchronisedLyricsFrame returns a frame or an error for every body
\* and never panics, a body with a truncated timestamp included.
C29_SyltParseNeverPanics ==
    (bdPc = "parsed" /\ bdParser = SYLT) => ~bdParsed.panic

\* the body ends 3 bytes after the terminator of the text "t": br.Next(4) returns
\* nil and binary.BigEndian.Uint32 panics
C29_TruncatedTimestampPanics ==
    /\ bdPc = "parsed"
    /\ bdParser = SYLT
    /\ bdInput.data = <<0, 101, 110, 103, 2, 1, 100, 0, 116, 0, 0, 0, 1>>
    /\ bdParsed.panic

(***************************************************************************)
(* The language of a parsed comment or lyrics frame is a slice of the      *)
(* reader's buffer until the frame is built.                               *)
(***************************************************************************)
\* a body the reader's buffer holds at once is parsed with the language it holds
ShortBodiesKeepLanguage ==
    (bdPc = "parsed" /\ bdParser \in {COMM, USLT} /\ bdParsed.err = "nil"
         /\ Len(bdInput.data) <= defaultBufSize) =>
        bdParsed.frame.Language = SubSeq(bdInput.data, 2, 4)

\* the long body read into a buffer the pool made: the rest of the text was read
\* into the reader's buffer, and the language is "ttt"
LongBodyLanguageOverwritten ==
    /\ bdPc = "parsed"
    /\ bdParser = COMM
    /\ bdInput.data = LongLanguageBody
    /\ bdInput.cap = 0
    /\ bdParsed.err = "nil"
    /\ Len(bdParsed.frame.Text) = LongTextLen
    /\ bdParsed.frame.Language = <<116, 116, 116>>

\* the long body read into a pooled buffer with room for it: the language is "eng"
LongBodyLanguageKept ==
    /\ bdPc = "parsed"
    /\ bdParser = USLT
    /\ bdInput.data = LongLanguageBody
    /\ bdInput.cap = 2 * defaultBufSize
    /\ bdParsed.err = "nil"
    /\ bdParsed.frame.Language = Eng
(***************************************************************************)
(* Pooled objects under concurrent parsing.                                *)
(***************************************************************************)

\* C24: no goroutine reads a limited reader after it has put that reader back into
\* lrPool, and so no limited reader is read by two parses in flight
C24_NoAccessAfterPut ==
    \A g \in Goroutines : ~plG[g].afterPut /\ ~plG[g].shared

\* C24: a chapter of one well-formed link subframe ended in an error, because the
\* other goroutine read the subframe's body through the limited reader it had put back
C24_BodyTakenByOtherGoroutine ==
    \E g, h \in Goroutines :
        /\ g # h
        /\ plG[g].pc = "done" /\ plG[g].err # "nil"
        /\ plG[g].data = ChapterBody(<<[id |-> WXXX, body |-> <<0, 117>>]>>, <<>>)
        /\ plG[h].shared

\* a single parse already reads the limited reader it has put back
C24_OneGoroutineReadsAfterPut ==
    \E g \in Goroutines :
        /\ plG[g].afterPut
        /\ \A h \in Goroutines \ {g} : plG[h].pc = "idle"
        /\ plFree = {2}

\* the reader a goroutine put back became the reader of the other goroutine's
\* chapter frame, and the first goroutine read the start of that frame through it:
\* the other parse found no element id and no numbers
C24_FieldsTakenByOtherGoroutine ==
    \E g, h \in Goroutines :
        /\ g # h
        /\ plG[g].pc = "done" /\ plG[g].err \in {"EOF", "ErrUnexpectedEOF"}
        /\ plG[g].h = NoHeader
        /\ plPos[g] > 0
        /\ plG[h].shared

\* between getLimitedReader and the first Read of parseTextFrame the other
\* goroutine read the body of the title through the same limited reader
C24_TitleTakenByOtherGoroutine ==
    \E g, h \in Goroutines :
        /\ g # h
        /\ plG[g].pc = "done" /\ plG[g].err = "EOF"
        /\ plG[g].h.id = TitleFrameID
        /\ plG[g].data = ChapterBody(<<[id |-> TitleFrameID, body |-> <<0, 84>>]>>, <<>>)
        /\ plG[h].shared

\* a goroutine tested N of the limited reader it had put back after the other
\* goroutine took it, and called R.Read after the other goroutine put it back:
\* R is nil
C24_StaleReaderMeetsNilReader ==
    \E g \in Goroutines : plG[g].pc = "panic" /\ plG[g].afterPut

\* two goroutines were past the test of N of one limited reader at once, and both
\* took their bytes off N
C24_LimitBelowZero == \E l \in 1..Len(plLr) : plLr[l].N < 0

\* the body of a link went to the other goroutine, and parseLinkFrame read the
\* start of the next subframe header without an error: the URL is "I"
C24_LinkFromNextHeader ==
    \E g \in Goroutines :
        /\ plG[g].data = ChapterBody(<<[id |-> WXXX, body |-> <<0, 117>>],
                                       [id |-> TitleFrameID, body |-> <<0, 84>>]>>, <<>>)
        /\ plG[g].Link.URL = <<73>>
        /\ plG[g].err = "nil"

\* both goroutines hold a limited reader for a subframe body and read it
C24_BothInsideSubframeBody ==
    \A g \in Goroutines : plG[g].pc \in {"textbody", "body"} /\ plG[g].stack # <<>>

\* both goroutines are inside bufio.Reader.Read of one bufferedReader: the stale
\* limited reader of one goroutine has the reader of the other as its R
C24_BothInsideOneBufferedRead ==
    \E b \in 1..MaxBufioReaders :
        \A g \in Goroutines :
            \E j \in 1..Len(plG[g].stack) :
                /\ plG[g].stack[j].k = "bufio" /\ plG[g].stack[j].i = b
                /\ plG[g].stack[j].st \notin {"fillwait", "directwait"}

\* one goroutine stored b.r = 0 and b.w = 0 to fill the buffer between the loads
\* of b.r and b.w of the other: b.buf[b.r:b.w] has its low bound above its high
\* bound and the program ends
C24_SliceBoundsInBufferedRead ==
    \E g \in Goroutines : plG[g].pc = "panic" /\ plG[g].err = "slice bounds out of range"

\* one goroutine stored b.r = 0 before the other read b.buf[b.r-1]
C24_IndexOutOfRangeInBufferedRead ==
    \E g \in Goroutines : plG[g].pc = "panic" /\ plG[g].err = "index out of range"

\* the fields of a bufio.Reader two goroutines store to: r is above w
C24_ReadIndexAboveWriteIndex == \E b \in 1..MaxBufioReaders : plBr[b].r > plBr[b].w

\* lrPool.Get never waits: a goroutine at getLimitedReader is handed a reader, and
\* a new one whenever the pool holds none that nothing refers to
C24_GetNeverWaits ==
    (\E g \in Goroutines : plG[g].pc \in {"text", "get"}
                           \/ (plG[g].pc = "idle" /\ plG[g].parses < MaxParses))
        => /\ Gettable # {}
           /\ Len(plLr) < MaxLimitedReaders \/ plFree \ Referred # {}
(***************************************************************************)
(* The tag header round trip.                                              *)
(***************************************************************************)
\* the header with its revision and flag bytes cleared
WithoutRevisionAndFlags(data) ==
    [i \in 1..Len(data) |-> IF i \in {5, 6} THEN 0 ELSE data[i]]

\* the header bytes of TestParseHeader
ScenarioHeader == <<73, 68, 51, 4, 0, 0, 0, 0, 119, 119>>

\* C25: parseHeader returns the version and the framesSize that writeTagHeader
\* wrote, for every version byte and every framesSize up to 2^28 - 1; the bytes
\* "ID3" 4 0 0 0 0 0x77 0x77 parse to version 4 and size 15351; and the bytes at
\* offsets 4 and 5 change nothing in the result
C25_HeaderRoundTrip ==
    hdPc = "parsed" =>
        /\ (hdArgs.written /\ hdArgs.framesSize <= ToNat(synchSafeMaxSize)) =>
               hdHeader = HeaderOf(hdArgs.version, hdArgs.framesSize, "nil")
        /\ hdBytes = ScenarioHeader => hdHeader = HeaderOf(4, 15351, "nil")
        /\ Len(hdBytes) = tagHeaderSize =>
               hdHeader = parseHeader(WithoutRevisionAndFlags(hdBytes))

\* C25: a header written for version 255 and the largest size, 2^28 - 1, is parsed
C25_LargestHeaderParsed ==
    /\ hdPc = "parsed"
    /\ hdArgs.written /\ hdArgs.version = 255 /\ hdArgs.framesSize = ToNat(synchSafeMaxSize)
    /\ hdBytes = <<73, 68, 51, 255, 0, 0, 127, 127, 127, 127>>
    /\ hdHeader.err = "nil"

\* a header with revision 255 and flags 128 is parsed, and its size is not zero
C25_RevisionAndFlagsParsed ==
    /\ hdPc = "parsed"
    /\ ~hdArgs.written /\ hdBytes[5] = 255 /\ hdBytes[6] = 128
    /\ hdHeader.err = "nil" /\ hdHeader.size = 119 * 128 + 119

\* the header of TestWriteTagHeader is written and parsed
C25_ScenarioWritten ==
    /\ hdPc = "parsed" /\ hdArgs.written /\ hdBytes = ScenarioHeader

\* a size above 2^28 - 1: writeTagHeader's Flush returns the error of the size and
\* hands nothing to the writer, and parseHeader meets the end of the source
C25_OverflowWritesNothing ==
    /\ hdPc = "parsed"
    /\ hdArgs.written /\ hdArgs.framesSize > ToNat(synchSafeMaxSize)
    /\ hdBytes = <<>>
    /\ hdHeader.err = "EOF"
(***************************************************************************)
(* What the frame scan takes from its source.                              *)
(***************************************************************************)
\* C28: when the scan reads a further frame header after a frame, it has taken
\* exactly 10 + bodySize bytes for that frame: the next header is read at the
\* first byte after the frame's body
C28_NextHeaderFollowsBody ==
    \A i \in 1..Len(skLog) :
        i < Len(skLog) =>
            /\ Int64(skLog[i].next)
                   = Int64Add(Int64(skLog[i].at + frameHeaderSize), skLog[i].bodySize)
            /\ skLog[i + 1].at = skLog[i].next

\* C28: after a chapter of LongBodyLen bytes that ends in padding the scan read
\* the next header inside the chapter's body, and the title after it was not seen
C28_HeaderReadInsideBody ==
    /\ skPc = "done" /\ skErr = "nil"
    /\ Len(skLog) = 2
    /\ skLog[1].id = CHAP /\ skLog[1].bodySize = Int64(LongBodyLen)
    /\ skLog[2].at = tagHeaderSize + frameHeaderSize + defaultBufSize
    /\ skLog[2].err = "ErrBlankFrame"
    /\ SubSeq(skSrc, tagHeaderSize + frameHeaderSize + LongBodyLen + 1,
              tagHeaderSize + frameHeaderSize + LongBodyLen + 4) = TitleFrameID

\* what C28 states holds of every frame whose body br can hold at once
C28_ShortBodiesAreTaken ==
    \A i \in 1..Len(skLog) :
        (i < Len(skLog) /\ ~Int64Less(Int64(defaultBufSize), skLog[i].bodySize)) =>
            Int64(skLog[i].next)
                = Int64Add(Int64(skLog[i].at + frameHeaderSize), skLog[i].bodySize)

\* the scan went on after a chapter that is shorter than its reader's buffer
C28_ShortChapterThenTitle ==
    /\ Len(skLog) = 2
    /\ skLog[1].id = CHAP /\ Int64Less(skLog[1].bodySize, Int64(defaultBufSize))
    /\ skLog[2].id = TitleFrameID /\ skLog[2].err = "nil"

\* what C28 states holds of every frame whose parser is not parseChapterFrame:
\* each of the other parsers reads its body to the end
C28_OtherParsersTakeTheBody ==
    \A i \in 1..Len(skLog) :
        (i < Len(skLog) /\ skLog[i].id # CHAP) =>
            Int64(skLog[i].next)
                = Int64Add(Int64(skLog[i].at + frameHeaderSize), skLog[i].bodySize)

\* the scan passed over a frame of LongBodyLen bytes in the loop of skipReaderBuf
\* and read the title behind it
C28_LongFrameSkippedThenTitle ==
    /\ Len(skLog) = 2
    /\ skProvided
    /\ skLog[1].id = XXXX /\ skLog[1].bodySize = Int64(LongBodyLen)
    /\ skLog[2].id = TitleFrameID /\ skLog[2].err = "nil"
    /\ skLog[2].at = tagHeaderSize + frameHeaderSize + LongBodyLen

\* a comment of one byte: parseCommentFrame returned io.EOF and the scan ended
\* with the title unread
CommentBreaksOffEndsScan ==
    /\ skPc = "done" /\ skErr = "nil"
    /\ Len(skLog) = 1
    /\ skLog[1].id = COMM /\ skLog[1].bodySize = Int64(1)
    /\ skPos + frameHeaderSize < Len(skSrc)

\* the title and the chapter were looked for: the chapter was parsed, which is
\* kept one per tag, and the scan went on looking for the title alone
ChapterNoLongerLookedFor ==
    /\ skPc = "frames"
    /\ skProvided
    /\ skIds = {TitleFrameID}
    /\ Len(skLog) = 1 /\ skLog[1].id = CHAP

\* a chapter whose body breaks off in a subframe header, parsed with a pooled slice
\* that holds the header of a title: parseChapterFrame returned io.EOF and the scan
\* ended with the title unread
CutChapterEndsScan ==
    /\ skPc = "done" /\ skErr = "nil"
    /\ Len(skLog) = 1
    /\ skLog[1].id = CHAP /\ skLog[1].bodySize = Int64(Len(ChapterBody(<<>>, CutHeader)))
    /\ skPos + frameHeaderSize < Len(skSrc)

\* the same chapter parsed with a slice that holds no such header: the scan went on
\* and read the title
CutChapterThenTitle ==
    /\ Len(skLog) = 2
    /\ skLog[1].id = CHAP /\ skLog[1].bodySize = Int64(Len(ChapterBody(<<>>, CutHeader)))
    /\ skLog[2].id = TitleFrameID /\ skLog[2].err = "nil"

\* the chapter with the long link is the first frame, and every frame is parsed
LongLinkChapterParsed ==
    /\ ~skProvided
    /\ Len(skLog) >= 1
    /\ skLog[1].id = CHAP
    /\ Int64Less(Int64(LongLinkLen), skLog[1].bodySize)

\* where the link's last byte lies in the source
LongLinkEnd == tagHeaderSize + frameHeaderSize + Len(ChapterFields) + frameHeaderSize + LongLinkLen

\* parsed with a pooled buffer that has room for the link, the parser took the link
\* and no more, and the scan read the next header right behind it
HeaderReadBehindLongLink ==
    /\ LongLinkChapterParsed
    /\ skLog[1].next = LongLinkEnd

\* parsed with a buffer the pool made, the parser took more than a buffer's size
\* behind the link's first half, and the scan read the next header there
HeaderReadFarBehindLongLink ==
    /\ LongLinkChapterParsed
    /\ skLog[1].next > LongLinkEnd + defaultBufSize \div 2
    /\ skLog[1].next < tagHeaderSize + frameHeaderSize + ToInt(skLog[1].bodySize)

\* the next header is read at one of these two places
LongLinkNextHeaderPlaces ==
    LongLinkChapterParsed =>
        \/ skLog[1].next = LongLinkEnd
        \/ /\ skLog[1].next > LongLinkEnd + defaultBufSize \div 2
           /\ skLog[1].next < tagHeaderSize + frameHeaderSize + ToInt(skLog[1].bodySize)

\* the scan ended in the panic of parseSynchronisedLyricsFrame
ScanEndedInPanic == skErr = "panic" /\ skLog[Len(skLog)].id = SYLT
====
